---- MODULE Spec2Model ----
(***************************************************************************)
(* A model of the AliExpress product-information Telegram bot:             *)
(*   formatter.py      ArabicFormatter.split_message                       *)
(*   link_parser.py    AliExpressLinkParser                                *)
(*   aliexpress_api.py AliExpressAPI (signing, requests, public lookup)    *)
(*   oauth_helper.py   AliExpressOAuth (signing, token exchange)           *)
(*   telegram_bot.py   TelegramBot.handle_message                          *)
(*                                                                         *)
(* Text is modelled as a sequence of pieces.  A piece is a single          *)
(* character wherever the code looks at characters (lengths, slices,       *)
(* whitespace, digits, key order); elsewhere a piece is a run of           *)
(* characters that every operation of the code treats as a unit.           *)
(***************************************************************************)
EXTENDS Integers, Sequences, FiniteSets, TLC

VARIABLES
    \* ---- ArabicFormatter.split_message ----
    message,             \* the text handed to split_message
    max_message_length,  \* self.max_message_length of the formatter
    chunks,              \* the list split_message returned
    split_pc,            \* "start" before the call, "done" after it
    \* ---- AliExpressLinkParser.parse_url ----
    link,                \* the parts the text was written from
    url,                 \* the text handed to parse_url
    product_info,        \* what parse_url returned
    parse_pc,            \* "start" before the call, "done" after it
    \* ---- _generate_signature of AliExpressAPI and of AliExpressOAuth ----
    sign_params,         \* a parameter mapping
    sign_other,          \* the same keys, one value changed
    sign_secret,         \* self.app_secret
    sig_first,           \* AliExpressAPI._generate_signature(sign_params)
    sig_again,           \* the same call once more
    sig_other,           \* AliExpressAPI._generate_signature(sign_other)
    sig_oauth,           \* AliExpressOAuth._generate_signature(sign_params)
    sign_pc,             \* how many of the four calls have returned
    \* ---- AliExpressAPI and AliExpressOAuth requests ----
    now,                 \* int(time.time() * 1000) at the latest reading of the clock
    app_secret,          \* self.app_secret of the client
    session,             \* self.session: "none", "open"
    lookup_id,           \* the product_id handed to get_product_details
    sent,                \* every request posted so far, in order
    replies,             \* what the remote end did with each of them
    product_data,        \* what get_product_details returned
    token_data,          \* what the token exchange or refresh returned
    api_pc,              \* where the running call stands
    lookup_sku,          \* the sku_id handed to get_product_details
    responses,           \* what each call of _make_api_request returned
    shipping_data,       \* what get_shipping_info returned
    \* ---- TelegramBot.handle_message ----
    update_text,         \* update.message.text
    chat,                \* what the handler posted to the chat, in order
    bot_pc,              \* where the handler stands
    formatted_response,  \* the text format_product_info returned to the handler
    \* ---- AliExpressAPI.calculate_total_price ----
    price_base,          \* base_price
    price_shipping,      \* the shipping_cost argument, if one is passed
    breakdown,           \* what calculate_total_price returned
    breakdown_again,     \* what the same call returned once more
    price_pc,            \* "start", "computed", "done"
    \* ---- ArabicFormatter.format_product_info ----
    format_product,      \* product_data
    format_shipping,     \* shipping_data
    formatted,           \* the text format_product_info returned
    format_pc,           \* "start" before the call, "done" after it
    \* ---- concurrent runs of handle_message that share one AliExpressAPI ----
    pool,                \* every aiohttp.ClientSession made so far: "open" or "closed"
    shared_session,      \* self.session of the client: 0 for None, else its place in pool
    run_pc,              \* where each run stands
    run_session,         \* the session each run's latest call got from _get_session
    closes,              \* how many times close() of the client was called
    stopped              \* TelegramBot.stop() has returned

splitVars == <<message, max_message_length, chunks, split_pc>>
parseVars == <<link, url, product_info, parse_pc>>

signVars ==
    <<sign_params, sign_other, sign_secret, sig_first, sig_again, sig_other, sig_oauth, sign_pc>>
apiVars ==
    <<now, app_secret, session, lookup_id, sent, replies, product_data, token_data, api_pc,
      lookup_sku, responses, shipping_data>>
botVars == <<update_text, chat, bot_pc, formatted_response>>
priceVars == <<price_base, price_shipping, breakdown, breakdown_again, price_pc>>
formatVars == <<format_product, format_shipping, formatted, format_pc>>

runVars == <<pool, shared_session, run_pc, run_session, closes, stopped>>

vars == <<splitVars, parseVars, signVars, apiVars, botVars, priceVars, formatVars, runVars>>

\* Python's None, as a value that may be compared with a dict
None == [none |-> TRUE]

(***************************************************************************)
(* Bounds of the model.                                                    *)
(***************************************************************************)
MaxLen == 6        \* longest free-form message handed to split_message
MaxLimit == 4      \* largest max_message_length paired with free-form messages
MaxLine == 25      \* longest single-line message of distinct letters
MaxLineLimit == 10 \* largest max_message_length paired with single-line messages
MaxParams == 2     \* most parameters in a generated query string
MaxSignParams == 2 \* most entries of a mapping handed to _generate_signature
MaxPage == 2       \* most entries of a page of search results
StartClock == 9    \* the clock, in milliseconds, when a run starts
MaxClock == 10     \* the latest reading of the clock
MaxReply == 3      \* the longest text the chat takes in one message
MaxPriceSteps == 12 \* the largest base price, in steps of 5.00
MaxSkus == 2 \* the most skus of a product
MaxRuns == 2 \* the runs of handle_message that share the client
MaxCloses == 1 \* the most calls of close() of the client

(***************************************************************************)
(* Generic helpers on sequences.                                           *)
(***************************************************************************)
Min(a, b) == IF a <= b THEN a ELSE b

\* s[:n] and s[n:] of Python, for 0 <= n
Take(s, n) == SubSeq(s, 1, Min(n, Len(s)))
Drop(s, n) == SubSeq(s, Min(n, Len(s)) + 1, Len(s))

(***************************************************************************)
(* ArabicFormatter.split_message (formatter.py 299-327)                    *)
(***************************************************************************)
NL == "\n"
Whitespace == {" ", NL}

\* str.strip(): leading and trailing whitespace removed
RECURSIVE lstrip(_)
lstrip(s) == IF s # <<>> /\ Head(s) \in Whitespace THEN lstrip(Tail(s)) ELSE s

RECURSIVE rstrip(_)
rstrip(s) ==
    IF s # <<>> /\ s[Len(s)] \in Whitespace THEN rstrip(SubSeq(s, 1, Len(s) - 1)) ELSE s

strip(s) == lstrip(rstrip(s))

\* message.split('\n'): k newlines give k + 1 lines
RECURSIVE split_lines(_, _)
split_lines(s, line) ==
    IF s = <<>> THEN <<line>>
    ELSE IF Head(s) = NL THEN <<line>> \o split_lines(Tail(s), <<>>)
    ELSE split_lines(Tail(s), Append(line, Head(s)))

\* a slip in the slice of line 319: one character of the line is skipped
RECURSIVE force_split_skips(_, _)
force_split_skips(line, limit) ==
    IF Len(line) > limit
    THEN LET rest == force_split_skips(Drop(line, limit + 1), limit)
         IN  <<(<<Take(line, limit)>>) \o rest[1], rest[2]>>
    ELSE <<(<<>>), line>>

\* the while loop of lines 317-319: <<pieces appended to chunks, what is left of line>>
RECURSIVE force_split(_, _)
force_split(line, limit) ==
    IF Len(line) > limit
    THEN LET rest == force_split(Drop(line, limit), limit)
         IN  <<(<<Take(line, limit)>>) \o rest[1], rest[2]>>
    ELSE <<(<<>>), line>>

\* one iteration of the for loop (lines 309-322) on the pair <<chunks, current_chunk>>
split_step(acc, line, limit) ==
    LET done == acc[1]
        current_chunk == acc[2]
    IN  IF Len(current_chunk) + Len(line) + 1 > limit
        THEN IF current_chunk # <<>>
             THEN <<Append(done, strip(current_chunk)), Append(line, NL)>>
             ELSE LET forced == force_split(line, limit)
                  IN  <<done \o forced[1], Append(forced[2], NL)>>
        ELSE <<done, current_chunk \o Append(line, NL)>>

RECURSIVE split_loop(_, _, _)
split_loop(acc, lines, limit) ==
    IF lines = <<>> THEN acc
    ELSE split_loop(split_step(acc, Head(lines), limit), Tail(lines), limit)

split_message(msg, limit) ==
    IF Len(msg) <= limit THEN <<msg>>
    ELSE LET acc == split_loop(<<(<<>>), (<<>>)>>, split_lines(msg, <<>>), limit)
         IN  IF strip(acc[2]) # <<>> THEN Append(acc[1], strip(acc[2])) ELSE acc[1]

(***************************************************************************)
(* AliExpressLinkParser (link_parser.py)                                   *)
(*                                                                         *)
(* A link is a sequence of pieces: "/", "?", "#", "&", "=", "_", "[" and   *)
(* every digit are pieces of their own; a scheme with its colon, a host    *)
(* label with its dot ("www.", "m.", "a."), the registered name            *)
(* ("aliexpress.com"), the ".html" suffix and every other word are one     *)
(* piece each.  No piece but "/" holds a slash, and no piece but a digit   *)
(* holds a digit, so the character classes of the patterns are classes of  *)
(* pieces.  Percent-escapes do not occur in the links of the model.        *)
(***************************************************************************)
Digits == {"0", "1", "2", "3", "4", "5", "6", "7", "8", "9"}

\* pieces made of [a-zA-Z0-9] only
AlnumWords == {"item", "store", "product", "abc", "mNvN", "x", "y", "sku", "skuId",
               "variation", "spm", "scm", "ref"}

\* str.lower() on a piece
lower_piece(pc) ==
    CASE pc = "ALIEXPRESS.COM" -> "aliexpress.com"
      [] pc = "WWW." -> "www."
      [] OTHER -> pc

lower(s) == [i \in 1..Len(s) |-> lower_piece(s[i])]

\* the least index >= i of a piece of s in the set stop, or Len(s) + 1
RECURSIVE find_first(_, _, _)
find_first(s, i, stop) ==
    IF i > Len(s) \/ s[i] \in stop THEN i ELSE find_first(s, i + 1, stop)

\* s.startswith(prefix)
startswith(s, prefix) ==
    Len(s) >= Len(prefix) /\ SubSeq(s, 1, Len(prefix)) = prefix

Schemes == {"https:", "http:", "ftp:"}

\* urllib.parse.urlparse: scheme, netloc, path, query, fragment.
\* raises (ValueError) on a netloc with an unmatched square bracket.
urlparse(text) ==
    LET scheme == IF text # <<>> /\ Head(text) \in Schemes THEN <<Head(text)>> ELSE <<>>
        rest == Drop(text, Len(scheme))
        has_netloc == startswith(rest, <<"/", "/">>)
        netloc_end == IF has_netloc THEN find_first(rest, 3, {"/", "?", "#"}) ELSE 1
        netloc == IF has_netloc THEN SubSeq(rest, 3, netloc_end - 1) ELSE <<>>
        after == Drop(rest, netloc_end - 1)
        frag_at == find_first(after, 1, {"#"})
        before_frag == Take(after, frag_at - 1)
        query_at == find_first(before_frag, 1, {"?"})
    IN  [raises |-> \E i \in 1..Len(netloc) : netloc[i] = "[",
         scheme |-> scheme,
         netloc |-> netloc,
         path |-> Take(before_frag, query_at - 1),
         query |-> Drop(before_frag, query_at),
         fragment |-> Drop(after, frag_at)]

\* s.split(sep) for a one-piece separator
RECURSIVE split_on(_, _, _)
split_on(s, sep, part) ==
    IF s = <<>> THEN <<part>>
    ELSE IF Head(s) = sep THEN <<part>> \o split_on(Tail(s), sep, <<>>)
    ELSE split_on(Tail(s), sep, Append(part, Head(s)))

\* urllib.parse.parse_qs as a dict name -> list of values: fields are separated
\* by "&", name and value by the first "="; a field with no "=" or with an
\* empty value is dropped (keep_blank_values is False)
RECURSIVE parse_qs_fields(_, _)
parse_qs_fields(fields, acc) ==
    IF fields = <<>> THEN acc
    ELSE LET f == Head(fields)
             eq == find_first(f, 1, {"="})
             name == Take(f, eq - 1)
             value == Drop(f, eq)
             kept == eq <= Len(f) /\ value # <<>>
         IN  parse_qs_fields(Tail(fields),
                 IF ~kept THEN acc
                 ELSE IF name \in DOMAIN acc
                      THEN [acc EXCEPT ![name] = Append(@, value)]
                      ELSE acc @@ (name :> <<value>>))

EmptyDict == [k \in {} |-> <<>>]

parse_qs(query) ==
    IF query = <<>> THEN EmptyDict
    ELSE parse_qs_fields(split_on(query, "&", <<>>), EmptyDict)

\* the index after the longest run of pieces of the set cls that starts at i
RECURSIVE run_end(_, _, _)
run_end(s, i, cls) ==
    IF i <= Len(s) /\ s[i] \in cls THEN run_end(s, i + 1, cls) ELSE i

literal_at(s, i, lit) ==
    i + Len(lit) - 1 <= Len(s) /\ SubSeq(s, i, i + Len(lit) - 1) = lit

NoMatch == [matched |-> FALSE]

\* (\d+)\.html at i: the digit run and the index after ".html"
digits_html_at(s, i) ==
    LET e == run_end(s, i, Digits)
    IN  IF e > i /\ e <= Len(s) /\ s[e] = ".html"
        THEN [matched |-> TRUE, digits |-> SubSeq(s, i, e - 1)]
        ELSE NoMatch

\* 'desktop': aliexpress\.com/item/([^/]+)/(\d+)\.html
desktop_at(s, i) ==
    LET lit == <<"aliexpress.com", "/", "item", "/">>
        j == i + Len(lit)
        e == find_first(s, j, {"/"})
    IN  IF literal_at(s, i, lit) /\ e > j /\ e <= Len(s)
           /\ digits_html_at(s, e + 1).matched
        THEN [matched |-> TRUE,
              group1 |-> SubSeq(s, j, e - 1),
              group2 |-> digits_html_at(s, e + 1).digits]
        ELSE NoMatch

\* 'desktop_alt': aliexpress\.com/item/(\d+)\.html
desktop_alt_at(s, i) ==
    LET lit == <<"aliexpress.com", "/", "item", "/">>
    IN  IF literal_at(s, i, lit) /\ digits_html_at(s, i + Len(lit)).matched
        THEN [matched |-> TRUE, group1 |-> digits_html_at(s, i + Len(lit)).digits]
        ELSE NoMatch

\* 'mobile': (?:m\.)?aliexpress\.com/item/(\d+)\.html
mobile_at(s, i) == desktop_alt_at(s, i)

\* 'store': aliexpress\.com/store/product/[^/]+/(\d+)_(\d+)\.html
store_at(s, i) ==
    LET lit == <<"aliexpress.com", "/", "store", "/", "product", "/">>
        j == i + Len(lit)
        e == find_first(s, j, {"/"})
        u == run_end(s, e + 1, Digits)
    IN  IF literal_at(s, i, lit) /\ e > j /\ e <= Len(s)
           /\ u > e + 1 /\ u <= Len(s) /\ s[u] = "_"
           /\ digits_html_at(s, u + 1).matched
        THEN [matched |-> TRUE,
              group1 |-> SubSeq(s, e + 1, u - 1),
              group2 |-> digits_html_at(s, u + 1).digits]
        ELSE NoMatch

\* 'short': a\.aliexpress\.com/_([a-zA-Z0-9]+)
short_at(s, i) ==
    LET lit == <<"a.", "aliexpress.com", "/", "_">>
        j == i + Len(lit)
        e == run_end(s, j, Digits \cup AlnumWords)
    IN  IF literal_at(s, i, lit) /\ e > j
        THEN [matched |-> TRUE, group1 |-> SubSeq(s, j, e - 1)]
        ELSE NoMatch

\* self.patterns[name] tried at position i
match_at(name, s, i) ==
    CASE name = "desktop" -> desktop_at(s, i)
      [] name = "desktop_alt" -> desktop_alt_at(s, i)
      [] name = "mobile" -> mobile_at(s, i)
      [] name = "store" -> store_at(s, i)
      [] name = "short" -> short_at(s, i)

\* re.search: the match at the least start position.  The optional scheme and
\* "www." prefixes of the patterns capture nothing and hold no "a", so the
\* first match is the one whose required part starts leftmost.
RECURSIVE search_from(_, _, _)
search_from(name, s, i) ==
    IF i > Len(s) THEN NoMatch
    ELSE IF match_at(name, s, i).matched THEN match_at(name, s, i)
    ELSE search_from(name, s, i + 1)

search(name, s) == search_from(name, s, 1)

aliexpress_domains ==
    {<<"aliexpress.com">>, <<"m.", "aliexpress.com">>, <<"a.", "aliexpress.com">>}

\* a slip in line 51: the domain is tested for its ending, not for equality
is_aliexpress_url_by_suffix(text) ==
    LET parsed == urlparse(text)
        domain == lower(parsed.netloc)
    IN  IF parsed.raises THEN FALSE
        ELSE domain # <<>> /\ domain[Len(domain)] = "aliexpress.com"

is_aliexpress_url(text) ==
    LET parsed == urlparse(text)
        domain == lower(parsed.netloc)
        bare == IF startswith(domain, <<"www.">>) THEN Tail(domain) ELSE domain
    IN  IF parsed.raises THEN FALSE ELSE bare \in aliexpress_domains

\* lines 66-67
normalize(text) ==
    IF startswith(text, <<"http:", "/", "/">>) \/ startswith(text, <<"https:", "/", "/">>)
    THEN text
    ELSE <<"https:", "/", "/">> \o text

\* lines 69-114: the patterns in their order; None when none matches
match_patterns(s) ==
    LET desktop == search("desktop", s)
        desktop_alt == search("desktop_alt", s)
        mobile == search("mobile", s)
        store == search("store", s)
        short == search("short", s)
    IN  IF desktop.matched
        THEN [product_id |-> desktop.group2, product_name_slug |-> desktop.group1]
        ELSE IF desktop_alt.matched THEN [product_id |-> desktop_alt.group1]
        ELSE IF mobile.matched THEN [product_id |-> mobile.group1]
        ELSE IF store.matched
        THEN [product_id |-> store.group2, store_id |-> store.group1]
        ELSE IF short.matched
        THEN [short_code |-> short.group1, needs_expansion |-> TRUE]
        ELSE None

sku_params == <<<<"sku">>, <<"skuId">>, <<"sku_id">>, <<"variation">>>>

\* lines 122-126: the first alias of sku_params that query_params holds
RECURSIVE first_sku(_, _)
first_sku(query_params, i) ==
    IF i > Len(sku_params) THEN EmptyDict
    ELSE IF sku_params[i] \in DOMAIN query_params
    THEN [sku_id |-> query_params[sku_params[i]][1]]
    ELSE first_sku(query_params, i + 1)

\* lines 129-133
tracking(query_params, key, name) ==
    IF key \in DOMAIN query_params THEN (name :> query_params[key][1]) ELSE EmptyDict

\* a dict updated with another: the later value of a key wins
update(dict, other) == other @@ dict

\* lines 116-133
add_query_params(info, s) ==
    LET query_params == parse_qs(urlparse(s).query)
    IN  update(update(update(info, first_sku(query_params, 1)),
                      tracking(query_params, <<"spm">>, "spm")),
               tracking(query_params, <<"scm">>, "scm"))

parse_url(text) ==
    IF ~is_aliexpress_url(text) THEN None
    ELSE LET s == normalize(text)
             info == match_patterns(s)
         IN  IF info # None THEN add_query_params(info, s) ELSE None

(***************************************************************************)
(* Request signing (aliexpress_api.py 42-56, oauth_helper.py 107-121)      *)
(*                                                                         *)
(* A dict is the sequence of its <<key, value>> items in insertion order.  *)
(* A key is a sequence of characters.  A value is a str or an int.         *)
(***************************************************************************)
StrVal(s) == [str |-> s]
IntVal(n) == [int |-> n]

DigitChars == <<"0", "1", "2", "3", "4", "5", "6", "7", "8", "9">>

\* str(n) of a non-negative int: its decimal digits
RECURSIVE str_int(_)
str_int(n) ==
    IF n < 10 THEN <<DigitChars[n + 1]>>
    ELSE Append(str_int(n \div 10), DigitChars[(n % 10) + 1])

\* f"{v}"
format_value(v) == IF "int" \in DOMAIN v THEN str_int(v.int) ELSE v.str

\* the characters of the keys, in ascending code point order
CodePointOrder ==
    <<"0", "1", "2", "3", "4", "5", "6", "7", "8", "9",
      "A", "B", "C", "D", "E", "F", "G", "H", "I", "J", "K", "L", "M", "N", "O", "P", "Q", "R", "S", "T", "U", "V", "W", "X", "Y", "Z",
      "_",
      "a", "b", "c", "d", "e", "f", "g", "h", "i", "j", "k", "l", "m", "n", "o", "p", "q", "r", "s", "t", "u", "v", "w", "x", "y", "z">>

ord(c) == CHOOSE i \in 1..Len(CodePointOrder) : CodePointOrder[i] = c

\* a < b for two str: the first differing character decides, a proper prefix is less
RECURSIVE str_less(_, _)
str_less(a, b) ==
    IF b = <<>> THEN FALSE
    ELSE IF a = <<>> THEN TRUE
    ELSE IF Head(a) = Head(b) THEN str_less(Tail(a), Tail(b))
    ELSE ord(Head(a)) < ord(Head(b))

\* key in params
has_key(params, key) == \E i \in 1..Len(params) : params[i][1] = key

\* params[key]
get_item(params, key) == params[CHOOSE i \in 1..Len(params) : params[i][1] = key][2]

\* params[key] = value: a present key keeps its place
set_item(params, key, value) ==
    IF has_key(params, key)
    THEN [i \in 1..Len(params) |-> IF params[i][1] = key THEN <<key, value>> ELSE params[i]]
    ELSE Append(params, <<key, value>>)

\* params.update(other)
RECURSIVE dict_update(_, _)
dict_update(params, other) ==
    IF other = <<>> THEN params
    ELSE dict_update(set_item(params, Head(other)[1], Head(other)[2]), Tail(other))

\* one item put in its place in a list sorted by key
RECURSIVE insert_sorted(_, _)
insert_sorted(sorted, item) ==
    IF sorted = <<>> THEN <<item>>
    ELSE IF str_less(item[1], Head(sorted)[1]) THEN <<item>> \o sorted
    ELSE <<Head(sorted)>> \o insert_sorted(Tail(sorted), item)

\* sorted(params.items())
RECURSIVE sorted_items(_)
sorted_items(params) ==
    IF params = <<>> THEN <<>>
    ELSE insert_sorted(sorted_items(Tail(params)), Head(params))

\* ''.join([f"{k}{v}" for k, v in sorted_params])
RECURSIVE join_items(_)
join_items(items) ==
    IF items = <<>> THEN <<>>
    ELSE Head(items)[1] \o format_value(Head(items)[2]) \o join_items(Tail(items))

\* hashlib.md5(...).hexdigest().upper(): the digest is taken to be free of
\* collisions, so it is written as the text it digests
md5_hexdigest_upper(text) == [md5 |-> text]

\* a slip in line 48: the values are left out of the parameter string
RECURSIVE join_keys(_)
join_keys(items) ==
    IF items = <<>> THEN <<>> ELSE Head(items)[1] \o join_keys(Tail(items))

sign_keys_only(params, secret) ==
    md5_hexdigest_upper(secret \o join_keys(sorted_items(params)) \o secret)

\* AliExpressAPI._generate_signature, with self.app_secret
_generate_signature(params, secret) ==
    LET sorted_params == sorted_items(params)
        param_string == join_items(sorted_params)
        sign_string == secret \o param_string \o secret
    IN  md5_hexdigest_upper(sign_string)

\* AliExpressOAuth._generate_signature, with self.app_secret
oauth_generate_signature(params, secret) ==
    LET sorted_params == sorted_items(params)
        param_string == join_items(sorted_params)
        sign_string == secret \o param_string \o secret
    IN  md5_hexdigest_upper(sign_string)

K_app_key == <<"a", "p", "p", "_", "k", "e", "y">>
K_method == <<"m", "e", "t", "h", "o", "d">>
K_timestamp == <<"t", "i", "m", "e", "s", "t", "a", "m", "p">>
K_format == <<"f", "o", "r", "m", "a", "t">>
K_v == <<"v">>
K_sign_method == <<"s", "i", "g", "n", "_", "m", "e", "t", "h", "o", "d">>
K_target_currency == <<"t", "a", "r", "g", "e", "t", "_", "c", "u", "r", "r", "e", "n", "c", "y">>
K_target_language == <<"t", "a", "r", "g", "e", "t", "_", "l", "a", "n", "g", "u", "a", "g", "e">>
K_ship_to_country == <<"s", "h", "i", "p", "_", "t", "o", "_", "c", "o", "u", "n", "t", "r", "y">>
K_sign == <<"s", "i", "g", "n">>
K_keywords == <<"k", "e", "y", "w", "o", "r", "d", "s">>
K_page_size == <<"p", "a", "g", "e", "_", "s", "i", "z", "e">>
K_sort == <<"s", "o", "r", "t">>
K_code == <<"c", "o", "d", "e">>
K_redirect_uri == <<"r", "e", "d", "i", "r", "e", "c", "t", "_", "u", "r", "i">>
K_refresh_token == <<"r", "e", "f", "r", "e", "s", "h", "_", "t", "o", "k", "e", "n">>

(***************************************************************************)
(* AliExpressAPI requests and the public lookup (aliexpress_api.py 58-205) *)
(***************************************************************************)
\* the settings __init__ reads from the environment, at their defaults
app_key == <<"APP_KEY">>
base_url == <<"https://gw.api.taobao.com/router/rest">>
target_currency == <<"USD">>
target_language == <<"EN">>
ship_to_country == <<"DZ">>

\* _prepare_common_params, with timestamp = str(int(time.time() * 1000))
_prepare_common_params(method, timestamp) ==
    << <<K_app_key, StrVal(app_key)>>,
       <<K_method, StrVal(method)>>,
       <<K_timestamp, StrVal(timestamp)>>,
       <<K_format, StrVal(<<"json">>)>>,
       <<K_v, StrVal(<<"2.0">>)>>,
       <<K_sign_method, StrVal(<<"md5">>)>>,
       <<K_target_currency, StrVal(target_currency)>>,
       <<K_target_language, StrVal(target_language)>>,
       <<K_ship_to_country, StrVal(ship_to_country)>> >>

\* a slip in lines 81-85: the signature is taken before the update
sign_then_update(method, additional_params, timestamp, secret) ==
    LET params == _prepare_common_params(method, timestamp)
        signed == set_item(params, K_sign, _generate_signature(params, secret))
    IN  dict_update(signed, additional_params)

\* _make_api_request, lines 79-85: the data that is posted
request_data(method, additional_params, timestamp, secret) ==
    LET params == _prepare_common_params(method, timestamp)
        updated == IF additional_params # <<>>
                   THEN dict_update(params, additional_params)
                   ELSE params
    IN  set_item(updated, K_sign, _generate_signature(updated, secret))

\* a slip in line 91: the status is not looked at, the body of an error
\* answer is returned
response_unchecked(reply) ==
    IF reply.kind = "json" THEN reply.body
    ELSE IF reply.kind = "status"
    THEN [has_wrapper |-> FALSE, has_result |-> FALSE, has_products |-> FALSE,
          products |-> <<>>]
    ELSE None

\* _make_api_request, lines 87-104: what it returns when the remote end
\* answers with reply (a fault is any exception raised while posting)
_make_api_request(reply) ==
    IF reply.kind = "json" THEN reply.body ELSE None

product_query == <<"aliexpress.affiliate.product.query">>

\* search_products_by_keywords, lines 109-116: the method's parameters
search_params(keywords, page_size) ==
    << <<K_keywords, StrVal(keywords)>>,
       <<K_page_size, IntVal(page_size)>>,
       <<K_sort, StrVal(<<"default">>)>>,
       <<K_target_currency, StrVal(target_currency)>>,
       <<K_target_language, StrVal(target_language)>>,
       <<K_ship_to_country, StrVal(ship_to_country)>> >>

\* search_products_by_keywords, lines 118-131: a body without the wrapper
\* gives None, and so does a wrapper without 'result' (KeyError, caught)
search_products_by_keywords(reply) ==
    LET response == _make_api_request(reply)
    IN  IF response = None THEN None
        ELSE IF ~response.has_wrapper THEN None
        ELSE IF ~response.has_result THEN None
        ELSE [has_products |-> response.has_products, products |-> response.products]

\* search_result and search_result.get('products') are both truthy
has_page(search_result) ==
    /\ search_result # None
    /\ search_result.has_products
    /\ search_result.products # <<>>

\* str(product.get('product_id'))
product_id_text(product) ==
    IF "product_id" \in DOMAIN product THEN format_value(product.product_id) ELSE <<"None">>

\* a slip in lines 143-150: the page is not searched for the id
first_of_page(product_id, reply) ==
    LET search_result == search_products_by_keywords(reply)
    IN  IF ~has_page(search_result) THEN None ELSE search_result.products[1]

\* get_product_by_id, once the search has been answered with reply
get_product_by_id(product_id, reply) ==
    LET search_result == search_products_by_keywords(reply)
    IN  IF ~has_page(search_result) THEN None
        ELSE LET products == search_result.products
                 hits == {i \in 1..Len(products) : product_id_text(products[i]) = product_id}
             IN  IF hits # {}
                 THEN products[CHOOSE i \in hits : \A j \in hits : i <= j]
                 ELSE products[1]

\* get_product_details, line 192
search_term(product_id) ==
    IF Len(product_id) > 8 THEN Drop(product_id, Len(product_id) - 8) ELSE product_id

\* get_product_details, lines 195-199, once the second search has been answered
fallback_product(reply) ==
    LET search_result == search_products_by_keywords(reply)
    IN  IF has_page(search_result) THEN search_result.products[1] ELSE None

\* a slip in get_shipping_info: the destination is a fixed country, not the
\* configured one
shipping_to_fixed_country(product_id) ==
    [estimated_delivery |-> StrVal(<<"15-30 days">>),
     shipping_method |-> StrVal(<<"Standard Shipping">>),
     destination |-> StrVal(<<"US">>),
     note |-> StrVal(<<"Shipping times may vary">>)]

\* get_shipping_info: a dict of fixed texts and self.ship_to_country; nothing
\* in the try block raises
get_shipping_info(product_id) ==
    [estimated_delivery |-> StrVal(<<"15-30 days">>),
     shipping_method |-> StrVal(<<"Standard Shipping">>),
     destination |-> StrVal(ship_to_country),
     note |-> StrVal(<<"Shipping times may vary">>)]

(***************************************************************************)
(* AliExpressOAuth token requests (oauth_helper.py 32-105)                 *)
(***************************************************************************)
redirect_uri == <<"http://localhost:8080/callback">>
oauth_base_url == <<"https://api.aliexpress.com/sync">>
oauth_token == <<"aliexpress.system.oauth.token">>
oauth_token_refresh == <<"aliexpress.system.oauth.token.refresh">>

\* exchange_code_for_token, lines 35-49: the data that is posted
exchange_data(authorization_code, timestamp, secret) ==
    LET params == << <<K_app_key, StrVal(app_key)>>,
                     <<K_method, StrVal(oauth_token)>>,
                     <<K_timestamp, StrVal(timestamp)>>,
                     <<K_format, StrVal(<<"json">>)>>,
                     <<K_v, StrVal(<<"2.0">>)>>,
                     <<K_sign_method, StrVal(<<"md5">>)>>,
                     <<K_code, StrVal(authorization_code)>>,
                     <<K_redirect_uri, StrVal(redirect_uri)>> >>
    IN  set_item(params, K_sign, oauth_generate_signature(params, secret))

\* refresh_access_token, lines 73-86: the data that is posted
refresh_data(refresh_token, timestamp, secret) ==
    LET params == << <<K_app_key, StrVal(app_key)>>,
                     <<K_method, StrVal(oauth_token_refresh)>>,
                     <<K_timestamp, StrVal(timestamp)>>,
                     <<K_format, StrVal(<<"json">>)>>,
                     <<K_v, StrVal(<<"2.0">>)>>,
                     <<K_sign_method, StrVal(<<"md5">>)>>,
                     <<K_refresh_token, StrVal(refresh_token)>> >>
    IN  set_item(params, K_sign, oauth_generate_signature(params, secret))

\* lines 53-68 and 90-105: the token record of a 200 answer whose JSON body
\* has the method's wrapper, None otherwise
token_result(reply) ==
    IF reply.kind = "json" /\ reply.body.has_wrapper
    THEN [access_token |-> reply.body.access_token,
          refresh_token |-> reply.body.refresh_token,
          expires_in |-> reply.body.expires_in,
          token_type |-> reply.body.token_type]
    ELSE None

(***************************************************************************)
(* AliExpressAPI.calculate_total_price (aliexpress_api.py 223-246)         *)
(*                                                                         *)
(* An amount is an integer number of hundredths of a cent, so that 19% of  *)
(* an amount of whole cents is an amount: 2.99 is 29900.                   *)
(***************************************************************************)
\* a slip in line 239: the tax is left out of the total
total_without_tax(base_price, shipping) ==
    LET shipping_cost == IF shipping.supplied THEN shipping.amount ELSE 0
    IN  [base_price |-> base_price, shipping_cost |-> shipping_cost,
         subtotal |-> base_price + shipping_cost,
         tax_amount |-> ((base_price + shipping_cost) * 19) \div 100,
         total |-> base_price + shipping_cost]

calculate_total_price(base_price, shipping) ==
    LET \* the parameter, with its default
        shipping_cost == IF shipping.supplied THEN shipping.amount ELSE 0
        \* lines 226-232
        estimated == IF shipping_cost = 0
                     THEN IF base_price < 100000 THEN 29900
                          ELSE IF base_price < 500000 THEN 59900
                          ELSE 99900
                     ELSE shipping_cost
        subtotal == base_price + estimated
        \* tax_rate = 0.19
        tax_amount == (subtotal * 19) \div 100
        total == subtotal + tax_amount
    IN  [base_price |-> base_price, shipping_cost |-> estimated, subtotal |-> subtotal,
         tax_amount |-> tax_amount, total |-> total]

(***************************************************************************)
(* ArabicFormatter.format_product_info (formatter.py 27-297)               *)
(*                                                                         *)
(* A dict is a record with the fields it holds.  A piece of the text is a  *)
(* character of a value, or a run of the template's characters; the        *)
(* template's Arabic words and symbols are written in English, in          *)
(* brackets where they are one symbol.                                     *)
(***************************************************************************)
\* a float value, in hundredths: 4.5 is FloatVal(450)
FloatVal(hundredths) == [float |-> hundredths]

\* a value that is no number and no str: a list that is not empty
Malformed == [malformed |-> TRUE]

is_str(v) == "str" \in DOMAIN v
is_int(v) == "int" \in DOMAIN v
is_float(v) == "float" \in DOMAIN v

\* bool(v): a number is true when it is not 0, a str when it is not empty
truthy(v) ==
    IF v = None THEN FALSE
    ELSE IF is_int(v) THEN v.int # 0
    ELSE IF is_float(v) THEN v.float # 0
    ELSE IF is_str(v) THEN v.str # <<>>
    ELSE TRUE

\* two decimal digits
two_digits(n) == <<DigitChars[(n \div 10) + 1], DigitChars[(n % 10) + 1]>>

\* f"{x:.2f}" of a float of whole hundredths
two_decimals(hundredths) ==
    str_int(hundredths \div 100) \o <<".">> \o two_digits(hundredths % 100)

\* f"{v}": a float is written with its fraction, 5.0 as '5.0', 4.25 as '4.25'
text_of(v) ==
    IF is_float(v)
    THEN IF v.float % 10 = 0
         THEN str_int(v.float \div 100) \o <<".">> \o str_int((v.float % 100) \div 10)
         ELSE two_decimals(v.float)
    ELSE IF is_str(v) \/ is_int(v) THEN format_value(v)
    ELSE IF v = None THEN <<"None">>
    ELSE <<"[...]">>

\* the number a str of decimal digits writes
RECURSIVE digits_value(_)
digits_value(chars) ==
    IF chars = <<>> THEN 0
    ELSE 10 * digits_value(SubSeq(chars, 1, Len(chars) - 1))
         + (CHOOSE n \in 0..9 : DigitChars[n + 1] = chars[Len(chars)])

all_digits(chars) == chars # <<>> /\ \A i \in 1..Len(chars) : chars[i] \in Digits

Raises == [raises |-> TRUE, float |-> 0]
Float(hundredths) == [raises |-> FALSE, float |-> hundredths]

\* float(text) of a str, in hundredths: digits, or digits '.' and one or two
\* digits; any other text of the model raises ValueError
parse_float(chars) ==
    LET dots == {i \in 1..Len(chars) : chars[i] = "."}
    IN  IF dots = {}
        THEN IF all_digits(chars) THEN Float(100 * digits_value(chars)) ELSE Raises
        ELSE LET dot == CHOOSE i \in dots : TRUE
                 whole == SubSeq(chars, 1, dot - 1)
                 fraction == SubSeq(chars, dot + 1, Len(chars))
             IN  IF /\ Cardinality(dots) = 1
                    /\ all_digits(whole)
                    /\ all_digits(fraction)
                    /\ Len(fraction) <= 2
                 THEN Float(100 * digits_value(whole)
                            + (IF Len(fraction) = 1 THEN 10 ELSE 1) * digits_value(fraction))
                 ELSE Raises

\* float(v), in hundredths
to_float(v) ==
    IF is_int(v) THEN Float(100 * v.int)
    ELSE IF is_float(v) THEN Float(v.float)
    ELSE IF is_str(v) THEN parse_float(v.str)
    ELSE Raises

\* dict.get(key), for a dict that is a record
has_field(dict, key) == key \in DOMAIN dict
get_field(dict, key) == IF key \in DOMAIN dict THEN dict[key] ELSE None

\* self.templates, and the other fixed texts
product_header(title) == <<"[bag] **">> \o title \o <<"**", NL, NL>>
price_section_template == <<"[money] **prices:**", NL>>
shipping_section_template == <<"[truck] **shipping information:**", NL>>
rating_section_template == <<"[star] **ratings:**", NL>>
seller_section_template == <<"[shop] **seller information:**", NL>>
variants_section_template == <<"[palette] **available variants:**", NL>>
footer == <<NL, "[phone] **made by the AliExpress information bot**">>
formatting_error == <<"[cross] an error happened while formatting the product information">>
not_available == <<"not available">>
not_specified == <<"not specified">>

\* the characters the pattern of line 89 keeps: word characters, white
\* space, and - ( ) [ ] . ! and the Arabic marks
TitleSpecials == {"$", "*", "#", "@"}
clean_title(chars) == SelectSeq(chars, LAMBDA c : c \notin TitleSpecials)

\* _get_product_title; re.sub of a value that is no str raises, and the
\* bare except gives the default
_get_product_title(product) ==
    IF ~has_field(product, "product_title") THEN not_available
    ELSE IF ~is_str(product.product_title) THEN not_available
    ELSE LET title == clean_title(product.product_title.str)
         IN  IF Len(title) > 100 THEN Take(title, 97) \o <<"...">> ELSE title

\* _get_product_image
_get_product_image(product) ==
    IF has_field(product, "product_main_image_url")
    THEN product.product_main_image_url
    ELSE StrVal(<<>>)

image_line(image_url) == <<"[[camera] product image](">> \o text_of(image_url) \o <<")", NL, NL>>

\* product_data.get('ae_item_base_info_dto', {})
base_info_of(product) ==
    IF has_field(product, "ae_item_base_info_dto")
    THEN product.ae_item_base_info_dto
    ELSE EmptyDict

\* a value that is a dict: 'key in value' and value.get raise on any other
is_dict(v) ==
    ~(is_str(v) \/ is_int(v) \/ is_float(v) \/ "list" \in DOMAIN v \/ v = None \/ v = Malformed)

\* _get_shipping_cost, in hundredths; the bare except gives 0.0
_get_shipping_cost(shipping) ==
    IF shipping = None \/ DOMAIN shipping = {} THEN 0
    ELSE LET shipping_info ==
                 IF has_field(shipping, "aeop_freight_calculate_result_for_buyers_dto")
                 THEN shipping.aeop_freight_calculate_result_for_buyers_dto
                 ELSE EmptyDict
         IN  IF ~is_dict(shipping_info) THEN 0
             ELSE IF ~has_field(shipping_info, "freight") THEN 0
             ELSE IF ~is_dict(shipping_info.freight) THEN 0
             ELSE LET cent == IF has_field(shipping_info.freight, "cent")
                              THEN shipping_info.freight.cent
                              ELSE IntVal(0)
                  IN  IF to_float(cent).raises THEN 0 ELSE to_float(cent).float \div 100

\* f"{x:.0f}" of num / den: the nearest integer, the even one of two nearest
round_half_even(num, den) ==
    LET q == num \div den
        r == num % den
    IN  IF 2 * r < den THEN q
        ELSE IF 2 * r > den THEN q + 1
        ELSE IF q % 2 = 0 THEN q ELSE q + 1

\* _format_price_section
_format_price_section(product, shipping) ==
    LET base_info == base_info_of(product)
    IN  IF ~is_dict(product) \/ ~is_dict(base_info) THEN <<>>
        ELSE
        LET has_original == has_field(base_info, "original_price")
            has_sale == has_field(base_info, "sale_price")
            original == IF has_original THEN to_float(base_info.original_price) ELSE Float(0)
            sale == IF has_sale THEN to_float(base_info.sale_price) ELSE Float(0)
            original_line ==
                IF has_original
                THEN <<"* original price: $">> \o two_decimals(original.float) \o <<NL>>
                ELSE <<>>
            sale_line ==
                IF has_sale
                THEN <<"* sale price: **$">> \o two_decimals(sale.float) \o <<"**", NL>>
                ELSE <<>>
            discount_line ==
                IF has_sale /\ has_original /\ original.float > sale.float
                THEN <<"* discount: ">>
                     \o str_int(round_half_even((original.float - sale.float) * 100,
                                                original.float))
                     \o <<"%", NL>>
                ELSE <<>>
            shipping_cost == _get_shipping_cost(shipping)
            shipping_line ==
                IF shipping_cost > 0
                THEN <<"* shipping cost: $">> \o two_decimals(shipping_cost) \o <<NL>>
                ELSE <<>>
            base_price == IF has_sale THEN sale ELSE original
            total_line ==
                IF base_price.float > 0
                THEN <<"* **total: $">> \o two_decimals(base_price.float + shipping_cost)
                     \o <<"**", NL>>
                ELSE <<>>
        IN  IF original.raises \/ sale.raises THEN <<>>
            ELSE price_section_template \o original_line \o sale_line \o discount_line
                 \o shipping_line \o total_line \o <<NL>>

\* "[star]" * int(float(avg_rating))
stars_of(avg_rating) == [i \in 1..(to_float(avg_rating).float \div 100) |-> "[star]"]

\* a slip in _format_rating_section: the test of line 168 is left out, and the
\* heading is written for a record that has no rating fields
rating_heading_always(product) == rating_section_template \o <<NL>>

\* _format_rating_section
_format_rating_section(product) ==
    LET base_info == base_info_of(product)
    IN  IF ~is_dict(base_info) THEN <<>>
        ELSE
        LET avg_rating == get_field(base_info, "avg_evaluation_rating")
            review_count == get_field(base_info, "evaluation_count")
            rating_line ==
                IF truthy(avg_rating)
                THEN <<"* rating: ">> \o stars_of(avg_rating) \o <<" (">>
                     \o text_of(avg_rating) \o <<"/5)", NL>>
                ELSE <<>>
            count_line ==
                IF truthy(review_count)
                THEN <<"* number of reviews: ">> \o text_of(review_count) \o <<NL>>
                ELSE <<>>
        IN  IF ~truthy(avg_rating) /\ ~truthy(review_count) THEN <<>>
            ELSE IF truthy(avg_rating) /\ to_float(avg_rating).raises THEN <<>>
            ELSE rating_section_template \o rating_line \o count_line \o <<NL>>

\* _format_seller_section
_format_seller_section(product) ==
    LET base_info == base_info_of(product)
    IN  IF ~is_dict(base_info) THEN <<>>
        ELSE
        LET seller_id == get_field(base_info, "seller_id")
            shop_id == get_field(base_info, "shop_id")
            seller_line ==
                IF truthy(seller_id)
                THEN <<"* seller id: ">> \o text_of(seller_id) \o <<NL>>
                ELSE <<>>
            shop_line ==
                IF truthy(shop_id)
                THEN <<"* shop id: ">> \o text_of(shop_id) \o <<NL>>
                ELSE <<>>
        IN  IF ~truthy(seller_id) /\ ~truthy(shop_id) THEN <<>>
            ELSE seller_section_template \o seller_line \o shop_line \o <<NL>>

\* 'key' in v raises TypeError for None and for a number; in a list it is False
raises_on_in(v) == v = None \/ is_int(v) \/ is_float(v)
key_in(v, key) == is_dict(v) /\ has_field(v, key)

\* _format_shipping_section
_format_shipping_section(shipping) ==
    IF shipping = None \/ DOMAIN shipping = {} THEN <<>>
    ELSE LET shipping_info ==
                 IF has_field(shipping, "aeop_freight_calculate_result_for_buyers_dto")
                 THEN shipping.aeop_freight_calculate_result_for_buyers_dto
                 ELSE EmptyDict
             delivery_line ==
                 IF key_in(shipping_info, "delivery_day_max")
                    /\ key_in(shipping_info, "delivery_day_min")
                 THEN <<"* delivery time: ">> \o text_of(shipping_info.delivery_day_min)
                      \o <<"-">> \o text_of(shipping_info.delivery_day_max)
                      \o <<" days", NL>>
                 ELSE <<>>
             service_line ==
                 IF key_in(shipping_info, "service_name")
                 THEN <<"* shipping method: ">> \o text_of(shipping_info.service_name)
                      \o <<NL>>
                 ELSE <<>>
         IN  IF raises_on_in(shipping_info) THEN <<>>
             ELSE shipping_section_template \o delivery_line \o service_line
                  \o <<"* destination: Algeria (DZ)", NL>> \o <<NL>>

\* the props of every sku that has 'ae_sku_property_dtos', in order
RECURSIVE props_of(_)
props_of(sku_info) ==
    IF sku_info = <<>> THEN <<>>
    ELSE (IF has_field(Head(sku_info), "ae_sku_property_dtos")
          THEN Head(sku_info).ae_sku_property_dtos
          ELSE <<>>)
         \o props_of(Tail(sku_info))

prop_name(prop) ==
    IF has_field(prop, "sku_property_name") THEN prop.sku_property_name.str ELSE not_specified
prop_value(prop) ==
    IF has_field(prop, "property_value_definition_name")
    THEN prop.property_value_definition_name.str
    ELSE not_specified

\* the keys of variant_groups, in the order they were first added
RECURSIVE group_names(_, _)
group_names(props, seen) ==
    IF props = <<>> THEN <<>>
    ELSE IF prop_name(Head(props)) \in seen THEN group_names(Tail(props), seen)
    ELSE <<prop_name(Head(props))>>
         \o group_names(Tail(props), seen \cup {prop_name(Head(props))})

\* ', '.join(sorted(values))
RECURSIVE join_sorted(_)
join_sorted(values) ==
    IF values = {} THEN <<>>
    ELSE LET least == CHOOSE v \in values : \A w \in values \ {v} : str_less(v, w)
         IN  IF values = {least} THEN least
             ELSE least \o <<", ">> \o join_sorted(values \ {least})

RECURSIVE group_lines(_, _)
group_lines(names, props) ==
    IF names = <<>> THEN <<>>
    ELSE <<"* ">> \o Head(names) \o <<": ">>
         \o join_sorted({prop_value(props[i]) :
                            i \in {j \in 1..Len(props) : prop_name(props[j]) = Head(names)}})
         \o <<NL>> \o group_lines(Tail(names), props)

\* a list
ListVal(items) == [list |-> items]
is_list(v) == "list" \in DOMAIN v

\* _format_variants_section; a value of 'ae_item_sku_info_dtos' that is a
\* number is 0 (nothing to show) or cannot be iterated (a fault, caught)
_format_variants_section(product) ==
    LET sku_info == IF has_field(product, "ae_item_sku_info_dtos")
                    THEN product.ae_item_sku_info_dtos
                    ELSE ListVal(<<>>)
    IN  IF ~is_list(sku_info) THEN <<>>
        ELSE IF sku_info.list = <<>> THEN <<>>
        ELSE LET props == props_of(sku_info.list)
                 names == group_names(props, {})
             IN  IF names = <<>> THEN <<>>
                 ELSE variants_section_template \o group_lines(names, props) \o <<NL>>

\* _format_description_section
_format_description_section(product) == <<>>

\* format_product_info, lines 30-77: the parts that are not empty, joined,
\* the footer, and strip()
formatted_parts(product, shipping) ==
    LET title == _get_product_title(product)
        image_url == _get_product_image(product)
        formatted_message ==
            product_header(title)
            \o (IF truthy(image_url) THEN image_line(image_url) ELSE <<>>)
            \o _format_price_section(product, shipping)
            \o _format_rating_section(product)
            \o _format_seller_section(product)
            \o _format_shipping_section(shipping)
            \o _format_variants_section(product)
            \o _format_description_section(product)
            \o footer
    IN  strip(formatted_message)

\* a slip in _format_price_section: a fault is not caught there, and the
\* except of line 79 gives the error message
format_price_fault_uncaught(product, shipping) ==
    LET base_info == base_info_of(product)
    IN  IF \/ ~is_dict(product)
           \/ ~is_dict(base_info)
           \/ has_field(base_info, "original_price") /\ to_float(base_info.original_price).raises
           \/ has_field(base_info, "sale_price") /\ to_float(base_info.sale_price).raises
        THEN formatting_error
        ELSE formatted_parts(product, shipping)

\* format_product_info: no statement of the try block outside the section
\* functions raises, so the except of line 79 is never taken
format_product_info(product, shipping) == formatted_parts(product, shipping)

(***************************************************************************)
(* Inputs of split_message.                                                *)
(***************************************************************************)
Letters ==
    <<"a", "b", "c", "d", "e", "f", "g", "h", "i", "j", "k", "l", "m",
      "n", "o", "p", "q", "r", "s", "t", "u", "v", "w", "x", "y", "z">>

\* a single line of n distinct non-whitespace characters
LetterLine(n) == [i \in 1..n |-> Letters[((i - 1) % Len(Letters)) + 1]]

FreeAlphabet == {"a", " ", NL}

SplitIdle ==
    /\ message = <<>>
    /\ max_message_length = 0
    /\ chunks = <<>>
    /\ split_pc = "idle"

ParseIdle ==
    /\ link = None
    /\ url = <<>>
    /\ product_info = None
    /\ parse_pc = "idle"

SignIdle ==
    /\ sign_params = <<>>
    /\ sign_other = <<>>
    /\ sign_secret = <<>>
    /\ sig_first = None
    /\ sig_again = None
    /\ sig_other = None
    /\ sig_oauth = None
    /\ sign_pc = "idle"

ApiIdle ==
    /\ now = 0
    /\ app_secret = <<>>
    /\ session = "none"
    /\ lookup_id = <<>>
    /\ sent = <<>>
    /\ replies = <<>>
    /\ product_data = None
    /\ token_data = None
    /\ api_pc = "idle"
    /\ lookup_sku = None
    /\ responses = <<>>
    /\ shipping_data = None

BotIdle ==
    /\ update_text = <<>>
    /\ chat = <<>>
    /\ bot_pc = "idle"
    /\ formatted_response = None

\* a shipping_cost argument of calculate_total_price: passed or left out
NotSupplied == [supplied |-> FALSE]
Supplied(amount) == [supplied |-> TRUE, amount |-> amount]

PriceIdle ==
    /\ price_base = 0
    /\ price_shipping = NotSupplied
    /\ breakdown = None
    /\ breakdown_again = None
    /\ price_pc = "idle"

RunsIdle ==
    /\ pool = <<>>
    /\ shared_session = 0
    /\ run_pc = <<>>
    /\ run_session = <<>>
    /\ closes = 0
    /\ stopped = FALSE

FormatIdle ==
    /\ format_product = None
    /\ format_shipping = None
    /\ formatted = <<>>
    /\ format_pc = "idle"

SplitInit ==
    /\ PriceIdle
    /\ FormatIdle
    /\ RunsIdle
    /\ ParseIdle
    /\ SignIdle
    /\ ApiIdle
    /\ BotIdle
    /\ \/ \E n \in 0..MaxLen : \E m \in [1..n -> FreeAlphabet] :
             /\ message = m
             /\ max_message_length \in 1..MaxLimit
       \/ \E n \in 1..MaxLine :
             /\ message = LetterLine(n)
             /\ max_message_length \in 1..MaxLineLimit
    /\ chunks = <<>>
    /\ split_pc = "start"

Split ==
    /\ split_pc = "start"
    /\ chunks' = split_message(message, max_message_length)
    /\ split_pc' = "done"
    /\ UNCHANGED <<message, max_message_length>>
    /\ UNCHANGED <<parseVars, signVars, apiVars, botVars, priceVars, formatVars, runVars>>

SplitNext == Split

SpecSplit == SplitInit /\ [][SplitNext]_vars

(***************************************************************************)
(* Inputs of parse_url: a link is written from a scheme, a host, a path    *)
(* and the parameters of its query.                                        *)
(***************************************************************************)
NoScheme == <<>>
SchemeTexts ==
    {<<"https:", "/", "/">>, <<"http:", "/", "/">>, <<"ftp:", "/", "/">>, <<"/", "/">>,
     NoScheme}

\* the marketplace's hostnames (bare, m., a.), each also behind one "www."
AllowedHosts ==
    {<<"aliexpress.com">>, <<"m.", "aliexpress.com">>, <<"a.", "aliexpress.com">>,
     <<"www.", "aliexpress.com">>, <<"www.", "m.", "aliexpress.com">>,
     <<"www.", "a.", "aliexpress.com">>}

\* the same hostnames written with capitals
CapitalHosts == {<<"ALIEXPRESS.COM">>, <<"WWW.", "aliexpress.com">>}

\* other hosts: look-alikes, a foreign host, an unparseable one, none at all
ForeignHosts ==
    {<<"evil", "aliexpress.com">>, <<"aliexpress.com", ".evil.com">>, <<"evil.com">>,
     <<"www.", "www.", "aliexpress.com">>, <<"www.", "evil.com">>,
     <<"[", "aliexpress.com">>, <<>>}

ProductDigits == {<<"1", "2">>, <<"7">>}
StoreDigits == {<<"3">>}

ItemShapes == {"slugged", "bare", "store"}

PathsOf(products) ==
    {[shape |-> sh, product |-> p, store |-> st] :
        sh \in ItemShapes, p \in products, st \in StoreDigits}
    \cup {[shape |-> sh, product |-> <<>>, store |-> <<>>] : sh \in {"short", "noid", "root"}}

PathText(path) ==
    CASE path.shape = "slugged" -> <<"/", "item", "/", "abc", "/">> \o path.product \o <<".html">>
      [] path.shape = "bare" -> <<"/", "item", "/">> \o path.product \o <<".html">>
      [] path.shape = "store" ->
            <<"/", "store", "/", "product", "/", "abc", "/">>
                \o path.store \o <<"_">> \o path.product \o <<".html">>
      [] path.shape = "short" -> <<"/", "_", "mNvN">>
      [] path.shape = "noid" -> <<"/", "item", "/", "abc">>
      [] path.shape = "root" -> <<>>

ParamNames ==
    {<<"sku">>, <<"skuId">>, <<"sku_id">>, <<"variation">>, <<"spm">>, <<"scm">>, <<"ref">>}
ParamValues == {<<>>, <<"5">>, <<"6">>, <<"/", "9", ".html">>}
Params == {[name |-> n, value |-> v] : n \in ParamNames, v \in ParamValues}

RECURSIVE FieldsText(_)
FieldsText(params) ==
    IF params = <<>> THEN <<>>
    ELSE Head(params).name \o <<"=">> \o Head(params).value
         \o (IF Len(params) > 1 THEN <<"&">> ELSE <<>>) \o FieldsText(Tail(params))

\* the query; with in_fragment it is written after a "#", where it is no query
TailText(lk) ==
    IF lk.params = <<>> THEN <<>>
    ELSE (IF lk.in_fragment THEN <<"#", "?">> ELSE <<"?">>) \o FieldsText(lk.params)

LinkText(lk) == lk.scheme \o lk.host \o PathText(lk.path) \o TailText(lk)

SkuFive == <<[name |-> <<"sku_id">>, value |-> <<"5">>]>>

Link(sc, h, pa, q, fr) ==
    [scheme |-> sc, host |-> h, path |-> pa, params |-> q, in_fragment |-> fr]

ParseInit ==
    /\ PriceIdle
    /\ FormatIdle
    /\ RunsIdle
    /\ SplitIdle
    /\ SignIdle
    /\ ApiIdle
    /\ BotIdle
    /\ \* every scheme, host and path, with little in the query
       \/ \E sc \in SchemeTexts, h \in AllowedHosts \cup CapitalHosts \cup ForeignHosts,
             pa \in PathsOf(ProductDigits), q \in {<<>>, SkuFive}, fr \in BOOLEAN :
             link = Link(sc, h, pa, q, fr)
       \* every query, on the item shapes
       \/ \E pa \in {x \in PathsOf({<<"1", "2">>}) : x.shape \in ItemShapes},
             n \in 0..MaxParams : \E q \in [1..n -> Params] :
             link = Link(<<"https:", "/", "/">>, <<"www.", "aliexpress.com">>, pa, q, FALSE)
       \* every query, on the short link
       \/ \E n \in 0..MaxParams : \E q \in [1..n -> Params] :
             link = Link(<<"https:", "/", "/">>, <<"a.", "aliexpress.com">>,
                         [shape |-> "short", product |-> <<>>, store |-> <<>>], q, FALSE)
    /\ url = LinkText(link)
    /\ product_info = None
    /\ parse_pc = "start"

Resolve ==
    /\ parse_pc = "start"
    /\ product_info' = parse_url(url)
    /\ parse_pc' = "done"
    /\ UNCHANGED <<link, url, splitVars, signVars, apiVars, botVars, priceVars, formatVars, runVars>>

ParseNext == Resolve

SpecParse == ParseInit /\ [][ParseNext]_vars

(***************************************************************************)
(* Inputs of _generate_signature, and the four calls.                      *)
(***************************************************************************)
\* keys that sort by case, by prefix and by digit
SignKeys == {<<"a">>, <<"a", "b">>, <<"B">>, <<"a", "1">>}

SignValues ==
    {IntVal(1), IntVal(12), StrVal(<<"1">>), StrVal(<<"1", "2">>), StrVal(<<"b">>), StrVal(<<>>)}

SignSecrets == {<<"s">>, <<"s", "a">>}

distinct_keys(params) ==
    \A i, j \in 1..Len(params) : params[i][1] = params[j][1] => i = j

SignInit ==
    /\ PriceIdle
    /\ FormatIdle
    /\ RunsIdle
    /\ SplitIdle
    /\ ParseIdle
    /\ ApiIdle
    /\ BotIdle
    /\ \E n \in 0..MaxSignParams : \E ks \in [1..n -> SignKeys], vs \in [1..n -> SignValues] :
          /\ sign_params = [i \in 1..n |-> <<ks[i], vs[i]>>]
          /\ distinct_keys(sign_params)
          /\ \/ n = 0 /\ sign_other = sign_params
             \/ \E i \in 1..n : \E v \in SignValues \ {vs[i]} :
                   sign_other = [sign_params EXCEPT ![i] = <<ks[i], v>>]
    /\ sign_secret \in SignSecrets
    /\ sig_first = None
    /\ sig_again = None
    /\ sig_other = None
    /\ sig_oauth = None
    /\ sign_pc = "start"

ApiSign ==
    /\ sign_pc = "start"
    /\ sig_first' = _generate_signature(sign_params, sign_secret)
    /\ sign_pc' = "signed"
    /\ UNCHANGED <<sign_params, sign_other, sign_secret, sig_again, sig_other, sig_oauth>>
    /\ UNCHANGED <<splitVars, parseVars, apiVars, botVars, priceVars, formatVars, runVars>>

ApiSignAgain ==
    /\ sign_pc = "signed"
    /\ sig_again' = _generate_signature(sign_params, sign_secret)
    /\ sign_pc' = "signed_twice"
    /\ UNCHANGED <<sign_params, sign_other, sign_secret, sig_first, sig_other, sig_oauth>>
    /\ UNCHANGED <<splitVars, parseVars, apiVars, botVars, priceVars, formatVars, runVars>>

ApiSignOther ==
    /\ sign_pc = "signed_twice"
    /\ sig_other' = _generate_signature(sign_other, sign_secret)
    /\ sign_pc' = "signed_other"
    /\ UNCHANGED <<sign_params, sign_other, sign_secret, sig_first, sig_again, sig_oauth>>
    /\ UNCHANGED <<splitVars, parseVars, apiVars, botVars, priceVars, formatVars, runVars>>

OAuthSign ==
    /\ sign_pc = "signed_other"
    /\ sig_oauth' = oauth_generate_signature(sign_params, sign_secret)
    /\ sign_pc' = "done"
    /\ UNCHANGED <<sign_params, sign_other, sign_secret, sig_first, sig_again, sig_other>>
    /\ UNCHANGED <<splitVars, parseVars, apiVars, botVars, priceVars, formatVars, runVars>>

SignNext == ApiSign \/ ApiSignAgain \/ ApiSignOther \/ OAuthSign

SpecSign == SignInit /\ [][SignNext]_vars

(***************************************************************************)
(* The remote end, and the runs of the two clients.                        *)
(***************************************************************************)
\* int(product_id) of a str of digits
RECURSIVE int_of(_)
int_of(digits) ==
    IF digits = <<>> THEN 0
    ELSE 10 * int_of(SubSeq(digits, 1, Len(digits) - 1))
         + (CHOOSE n \in 0..9 : DigitChars[n + 1] = digits[Len(digits)])

\* the product records a page may hold when product_id is looked up: the
\* product itself with its id as a str or as a number, another product, and
\* a record without an id
Entries(product_id) ==
    {[product_id |-> StrVal(product_id), product_title |-> "x"],
     [product_id |-> IntVal(int_of(product_id)), product_title |-> "y"],
     [product_id |-> IntVal(5), product_title |-> "x"],
     [product_title |-> "z"]}

Failures == {[kind |-> "fault"], [kind |-> "status", status |-> 500], [kind |-> "bad_json"]}

Json(body) == [kind |-> "json", body |-> body]

SearchBody(wrapper, result, with_products, products) ==
    [has_wrapper |-> wrapper, has_result |-> result,
     has_products |-> with_products, products |-> products]

\* every answer of the remote end to a search for product_id
SearchReplies(product_id) ==
    Failures
    \cup {Json(SearchBody(FALSE, FALSE, FALSE, <<>>)),
          Json(SearchBody(TRUE, FALSE, FALSE, <<>>)),
          Json(SearchBody(TRUE, TRUE, FALSE, <<>>))}
    \cup UNION {{Json(SearchBody(TRUE, TRUE, TRUE, page)) :
                    page \in [1..n -> Entries(product_id)]} : n \in 0..MaxPage}

TokenBody(wrapper, access, refresh) ==
    [has_wrapper |-> wrapper, access_token |-> access, refresh_token |-> refresh,
     expires_in |-> None, token_type |-> None]

TokenReplies ==
    Failures
    \cup {Json(TokenBody(FALSE, None, None)),
          Json(TokenBody(TRUE, None, None)),
          Json(TokenBody(TRUE, StrVal(<<"t">>), StrVal(<<"r">>)))}

LookupIds ==
    {<<"7">>,
     <<"2", "3", "4", "5", "6", "7", "8", "9">>,
     <<"1", "2", "3", "4", "5", "6", "7", "8", "9">>}

ApiSecrets == {<<"s">>, <<"s", "a">>}

\* the sku_id argument of get_product_details: left out, or a str; the
\* short id is looked up both ways, the 8-digit id without and the 9-digit
\* id with a sku_id
LookupSkus(product_id) ==
    IF Len(product_id) < 8 THEN {None, StrVal(<<"5">>)}
    ELSE IF Len(product_id) = 8 THEN {None}
    ELSE {StrVal(<<"5">>)}

\* the record of one request: where it was posted, the data posted, and
\* the arguments of the call that built the data
Request(to, data, method, additional_params, timestamp) ==
    [url |-> to, data |-> data,
     call |-> [method |-> method, additional_params |-> additional_params,
               timestamp |-> timestamp]]

ApiInit ==
    /\ PriceIdle
    /\ FormatIdle
    /\ RunsIdle
    /\ SplitIdle
    /\ ParseIdle
    /\ SignIdle
    /\ BotIdle
    /\ now = StartClock
    /\ app_secret \in ApiSecrets
    /\ session = "none"
    /\ \/ api_pc = "lookup" /\ lookup_id \in LookupIds /\ lookup_sku \in LookupSkus(lookup_id)
       \/ api_pc = "shipping" /\ lookup_id \in LookupIds /\ lookup_sku = None
       \/ api_pc \in {"exchange", "refresh"} /\ lookup_id = <<>> /\ lookup_sku = None
    /\ responses = <<>>
    /\ shipping_data = None
    /\ sent = <<>>
    /\ replies = <<>>
    /\ product_data = None
    /\ token_data = None

\* get_product_details, lines 186-190: get_product_by_id and its search
SearchById ==
    /\ api_pc = "lookup"
    /\ \E t \in now..MaxClock, reply \in SearchReplies(lookup_id) :
          LET additional_params == search_params(lookup_id, 20)
              data == request_data(product_query, additional_params, str_int(t), app_secret)
              found == get_product_by_id(lookup_id, reply)
          IN  /\ now' = t
              /\ session' = "open"
              /\ sent' = Append(sent, Request(base_url, data, product_query,
                                               additional_params, str_int(t)))
              /\ replies' = Append(replies, reply)
              /\ responses' = Append(responses, _make_api_request(reply))
              /\ product_data' = found
              /\ api_pc' = IF found # None THEN "returned" ELSE "retry"
    /\ UNCHANGED <<app_secret, lookup_id, lookup_sku, token_data, shipping_data>>
    /\ UNCHANGED <<splitVars, parseVars, signVars, botVars, priceVars, formatVars, runVars>>

\* get_product_details, lines 190-201: the search with the last 8 characters
SearchFallback ==
    /\ api_pc = "retry"
    /\ \E t \in now..MaxClock, reply \in SearchReplies(lookup_id) :
          LET additional_params == search_params(search_term(lookup_id), 5)
              data == request_data(product_query, additional_params, str_int(t), app_secret)
          IN  /\ now' = t
              /\ session' = "open"
              /\ sent' = Append(sent, Request(base_url, data, product_query,
                                               additional_params, str_int(t)))
              /\ replies' = Append(replies, reply)
              /\ responses' = Append(responses, _make_api_request(reply))
              /\ product_data' = fallback_product(reply)
              /\ api_pc' = "returned"
    /\ UNCHANGED <<app_secret, lookup_id, lookup_sku, token_data, shipping_data>>
    /\ UNCHANGED <<splitVars, parseVars, signVars, botVars, priceVars, formatVars, runVars>>

\* get_shipping_info, called on its own
ShippingInfo ==
    /\ api_pc = "shipping"
    /\ shipping_data' = get_shipping_info(lookup_id)
    /\ api_pc' = "returned"
    /\ UNCHANGED <<now, app_secret, session, lookup_id, sent, replies, product_data, token_data,
                   lookup_sku, responses>>
    /\ UNCHANGED <<splitVars, parseVars, signVars, botVars, priceVars, formatVars, runVars>>

AuthorizationCodes == {<<"c">>, <<"c", "d">>}
RefreshTokens == {<<"r">>}

\* AliExpressOAuth.exchange_code_for_token
ExchangeCode ==
    /\ api_pc = "exchange"
    /\ \E t \in now..MaxClock, reply \in TokenReplies, code \in AuthorizationCodes :
          /\ now' = t
          /\ sent' = Append(sent, Request(oauth_base_url,
                                           exchange_data(code, str_int(t), app_secret),
                                           oauth_token,
                                           << <<K_code, StrVal(code)>>,
                                              <<K_redirect_uri, StrVal(redirect_uri)>> >>,
                                           str_int(t)))
          /\ replies' = Append(replies, reply)
          /\ token_data' = token_result(reply)
    /\ api_pc' = "returned"
    /\ UNCHANGED <<app_secret, session, lookup_id, lookup_sku, responses, product_data,
                   shipping_data>>
    /\ UNCHANGED <<splitVars, parseVars, signVars, botVars, priceVars, formatVars, runVars>>

\* AliExpressOAuth.refresh_access_token
RefreshToken ==
    /\ api_pc = "refresh"
    /\ \E t \in now..MaxClock, reply \in TokenReplies, token \in RefreshTokens :
          /\ now' = t
          /\ sent' = Append(sent, Request(oauth_base_url,
                                           refresh_data(token, str_int(t), app_secret),
                                           oauth_token_refresh,
                                           << <<K_refresh_token, StrVal(token)>> >>,
                                           str_int(t)))
          /\ replies' = Append(replies, reply)
          /\ token_data' = token_result(reply)
    /\ api_pc' = "returned"
    /\ UNCHANGED <<app_secret, session, lookup_id, lookup_sku, responses, product_data,
                   shipping_data>>
    /\ UNCHANGED <<splitVars, parseVars, signVars, botVars, priceVars, formatVars, runVars>>

ApiNext == SearchById \/ SearchFallback \/ ShippingInfo \/ ExchangeCode \/ RefreshToken

SpecApi == ApiInit /\ [][ApiNext]_vars

(***************************************************************************)
(* TelegramBot.handle_message (telegram_bot.py 97-188), one update.        *)
(*                                                                         *)
(* The chat is the list of what the handler posted: reply_text, edit_text  *)
(* of the processing message, delete of the processing message.  The text  *)
(* format_product_info writes is any of FormattedTexts.                    *)
(***************************************************************************)
Post(op, kind, text) == [op |-> op, kind |-> kind, text |-> text]

\* the links of the updates: a short link, item links, a link without an id,
\* a link to another host
BotLinks ==
    {Link(<<"https:", "/", "/">>, h, pa, q, FALSE) :
        h \in {<<"a.", "aliexpress.com">>, <<"www.", "aliexpress.com">>, <<"evil.com">>},
        pa \in {x \in PathsOf({<<"7">>}) : x.shape \in {"short", "bare", "noid"}},
        q \in {<<>>, SkuFive}}

\* update.message.text: the link, bare or with white space around it
BotTexts(lk) == {LinkText(lk), <<" ">> \o LinkText(lk) \o <<NL>>}

FormattedTexts ==
    {LetterLine(2), LetterLine(MaxReply + 2),
     LetterLine(2) \o <<NL>> \o LetterLine(MaxReply + 2)}

\* a slip in the loop of lines 166-179: only the first chunk is sent
reply_first_chunk(parts) == <<Post("reply_text", "product", parts[1])>>

\* the replies of lines 172-183, one for each chunk
reply_chunks(parts) == [i \in 1..Len(parts) |-> Post("reply_text", "product", parts[i])]

BotInit ==
    /\ PriceIdle
    /\ FormatIdle
    /\ RunsIdle
    /\ SplitIdle
    /\ SignIdle
    /\ link \in BotLinks
    /\ url = <<>>
    /\ product_info = None
    /\ parse_pc = "idle"
    /\ now = StartClock
    /\ app_secret \in ApiSecrets
    /\ session = "none"
    /\ lookup_id = <<>>
    /\ sent = <<>>
    /\ replies = <<>>
    /\ product_data = None
    /\ token_data = None
    /\ api_pc = "idle"
    /\ lookup_sku = None
    /\ responses = <<>>
    /\ shipping_data = None
    /\ update_text \in BotTexts(link)
    /\ chat = <<>>
    /\ bot_pc = "start"
    /\ formatted_response = None

\* lines 99-122: the check of the link, and the first reply
Receive ==
    /\ bot_pc = "start"
    /\ LET message_text == strip(update_text)
       IN  /\ url' = message_text
           /\ IF ~is_aliexpress_url(message_text)
              THEN /\ chat' = Append(chat, Post("reply_text", "invalid_link", <<>>))
                   /\ bot_pc' = "done"
              ELSE /\ chat' = Append(chat, Post("reply_text", "processing", <<>>))
                   /\ bot_pc' = "analyse"
    /\ UNCHANGED <<link, product_info, parse_pc, update_text, formatted_response>>
    /\ UNCHANGED <<splitVars, signVars, apiVars, priceVars, formatVars, runVars>>

\* lines 124-140: parse_url, and the call of get_product_details; the
\* subscript product_info['product_id'] of a dict without that key raises
\* KeyError, which line 184 catches
Analyse ==
    /\ bot_pc = "analyse"
    /\ LET info == parse_url(url)
       IN  /\ product_info' = info
           /\ IF info = None
              THEN /\ chat' = Append(chat, Post("edit_text", "parse_error", <<>>))
                   /\ bot_pc' = "done"
                   /\ UNCHANGED <<lookup_id, lookup_sku, api_pc>>
              ELSE IF "product_id" \notin DOMAIN info
              THEN /\ chat' = Append(chat, Post("edit_text", "processing_error",
                                                <<"'product_id'">>))
                   /\ bot_pc' = "done"
                   /\ UNCHANGED <<lookup_id, lookup_sku, api_pc>>
              ELSE /\ lookup_id' = info.product_id
                   /\ lookup_sku' = IF "sku_id" \in DOMAIN info
                                     THEN StrVal(info.sku_id)
                                     ELSE None
                   /\ api_pc' = "lookup"
                   /\ bot_pc' = "fetch"
                   /\ UNCHANGED chat
    /\ UNCHANGED <<link, url, parse_pc, update_text, formatted_response>>
    /\ UNCHANGED <<now, app_secret, session, sent, replies, responses, product_data, token_data,
                   shipping_data>>
    /\ UNCHANGED <<splitVars, signVars, priceVars, formatVars, runVars>>

\* lines 142-182, once get_product_details has returned: the fetch-error
\* edit, or get_shipping_info, format_product_info and the reply
Answer ==
    /\ bot_pc = "fetch"
    /\ api_pc = "returned"
    /\ IF product_data = None
       THEN /\ chat' = Append(chat, Post("edit_text", "fetch_error", <<>>))
            /\ UNCHANGED <<shipping_data, formatted_response>>
       ELSE /\ shipping_data' = get_shipping_info(product_info.product_id)
            /\ \E text \in FormattedTexts :
                  /\ formatted_response' = text
                  /\ IF Len(text) > MaxReply
                     THEN chat' = chat \o <<Post("delete", "processing", <<>>)>>
                                       \o reply_chunks(split_message(text, MaxReply))
                     ELSE chat' = Append(chat, Post("edit_text", "product", text))
    /\ bot_pc' = "done"
    /\ UNCHANGED update_text
    /\ UNCHANGED <<now, app_secret, session, lookup_id, sent, replies, product_data, token_data,
                   api_pc, lookup_sku, responses>>
    /\ UNCHANGED <<splitVars, parseVars, signVars, priceVars, formatVars, runVars>>

BotNext == Receive \/ Analyse \/ SearchById \/ SearchFallback \/ Answer

SpecBot == BotInit /\ [][BotNext]_vars

(***************************************************************************)
(* Inputs of calculate_total_price, and two calls with the same inputs.    *)
(***************************************************************************)
\* 0.00, 4.99, 5.00, 9.99, 10.00, ... : every multiple of 5.00 and the cent below it
BasePrices ==
    {k * 50000 - e : k \in 0..MaxPriceSteps, e \in {0, 100}} \cap Nat

ShippingArguments ==
    {NotSupplied, Supplied(0), Supplied(100), Supplied(29900), Supplied(50000)}

PriceInit ==
    /\ SplitIdle
    /\ ParseIdle
    /\ SignIdle
    /\ ApiIdle
    /\ BotIdle
    /\ FormatIdle
    /\ RunsIdle
    /\ price_base \in BasePrices
    /\ price_shipping \in ShippingArguments
    /\ breakdown = None
    /\ breakdown_again = None
    /\ price_pc = "start"

ComputeTotal ==
    /\ price_pc = "start"
    /\ breakdown' = calculate_total_price(price_base, price_shipping)
    /\ price_pc' = "computed"
    /\ UNCHANGED <<price_base, price_shipping, breakdown_again>>
    /\ UNCHANGED <<splitVars, parseVars, signVars, apiVars, botVars, formatVars, runVars>>

ComputeTotalAgain ==
    /\ price_pc = "computed"
    /\ breakdown_again' = calculate_total_price(price_base, price_shipping)
    /\ price_pc' = "done"
    /\ UNCHANGED <<price_base, price_shipping, breakdown>>
    /\ UNCHANGED <<splitVars, parseVars, signVars, apiVars, botVars, formatVars, runVars>>

PriceNext == ComputeTotal \/ ComputeTotalAgain

SpecPrice == PriceInit /\ [][PriceNext]_vars

(***************************************************************************)
(* Inputs of format_product_info.                                          *)
(***************************************************************************)
\* a key that the dict does not hold
Absent == [absent |-> TRUE]

\* the dict {key: value}, or {} when the key is left out
Entry(key, value) == IF value = Absent THEN EmptyDict ELSE key :> value

Titles ==
    {Absent, None, StrVal(<<"L", "a", "m", "p">>), StrVal(<<"$", "L", "*", "a">>),
     StrVal([i \in 1..101 |-> "a"])}

Images == {Absent, StrVal(<<"http://img">>)}

OriginalPrices == {Absent, StrVal(<<"1", "2", ".", "5", "0">>), StrVal(<<"a", "b", "c">>)}

SalePrices == {Absent, StrVal(<<"1", "0", ".", "0", "0">>), IntVal(10), None}

Ratings ==
    {Absent, FloatVal(450), StrVal(<<"4", ".", "5">>), IntVal(95), FloatVal(40),
     StrVal(<<"9", "5", "%">>)}

ReviewCounts == {Absent, IntVal(12)}

Sellers ==
    {EmptyDict, Entry("seller_id", IntVal(7)),
     Entry("seller_id", IntVal(7)) @@ Entry("shop_id", StrVal(<<"9">>))}

Prop(name, value) ==
    Entry("sku_property_name", StrVal(name))
    @@ Entry("property_value_definition_name", StrVal(value))

Skus ==
    {[ae_sku_property_dtos |-> <<Prop(<<"Color">>, <<"R", "e", "d">>)>>],
     [ae_sku_property_dtos |->
          <<Prop(<<"Color">>, <<"B", "l", "u", "e">>), Prop(<<"Size">>, <<"M">>)>>]}

\* the dict get_shipping_info returns
shipping_info_result == get_shipping_info(<<"7">>)

\* a freight calculation of the remote API
freight_result ==
    Entry("aeop_freight_calculate_result_for_buyers_dto",
          [delivery_day_min |-> IntVal(15), delivery_day_max |-> IntVal(30),
           service_name |-> StrVal(<<"Standard">>),
           freight |-> [cent |-> IntVal(250)]])

ShippingData ==
    {None, EmptyDict, shipping_info_result, freight_result,
     Entry("aeop_freight_calculate_result_for_buyers_dto", None)}

FormatInit ==
    /\ SplitIdle
    /\ ParseIdle
    /\ SignIdle
    /\ ApiIdle
    /\ BotIdle
    /\ PriceIdle
    /\ RunsIdle
    /\ \E title \in Titles, image \in Images :
       \E base_info \in
              {Absent, Malformed}
              \cup {Entry("original_price", original) @@ Entry("sale_price", sale)
                    @@ Entry("avg_evaluation_rating", rating)
                    @@ Entry("evaluation_count", count) @@ seller :
                        original \in OriginalPrices, sale \in SalePrices,
                        rating \in Ratings, count \in ReviewCounts, seller \in Sellers} :
       \E sku_info \in
              {Absent, IntVal(3)}
              \cup {ListVal(skus) : skus \in UNION {[1..n -> Skus] : n \in 0..MaxSkus}} :
           format_product =
               Entry("product_title", title) @@ Entry("product_main_image_url", image)
               @@ Entry("ae_item_base_info_dto", base_info)
               @@ Entry("ae_item_sku_info_dtos", sku_info)
    /\ format_shipping \in ShippingData
    /\ formatted = <<>>
    /\ format_pc = "start"

Format ==
    /\ format_pc = "start"
    /\ formatted' = format_product_info(format_product, format_shipping)
    /\ format_pc' = "done"
    /\ UNCHANGED <<format_product, format_shipping>>
    /\ UNCHANGED <<splitVars, parseVars, signVars, apiVars, botVars, priceVars, runVars>>

FormatNext == Format

SpecFormat == FormatInit /\ [][FormatNext]_vars

(***************************************************************************)
(* Runs of handle_message that share one AliExpressAPI                     *)
(* (aliexpress_api.py 28-40, 88-91; telegram_bot.py 134-140, 190-195).     *)
(*                                                                         *)
(* A run is suspended only where it awaits something that is not ready:    *)
(* the post of a request.  _get_session has no such await between its test *)
(* and its assignment, and session.close() marks the session closed        *)
(* before it first suspends.                                               *)
(***************************************************************************)
\* the sessions that are open
OpenSessions(sessions) == {i \in 1..Len(sessions) : sessions[i] = "open"}

\* a slip in _get_session: the test of line 32 is left out, and every call
\* makes a session of its own
session_per_call(sessions, current) ==
    [pool |-> Append(sessions, "open"), session |-> Len(sessions) + 1]

\* _get_session: self.session when there is one that is not closed, else a
\* new ClientSession, which becomes self.session
_get_session(sessions, current) ==
    IF current = 0 \/ sessions[current] = "closed"
    THEN [pool |-> Append(sessions, "open"), session |-> Len(sessions) + 1]
    ELSE [pool |-> sessions, session |-> current]

\* close: closes self.session when there is one that is not closed
close(sessions, current) ==
    IF current # 0 /\ sessions[current] # "closed"
    THEN [sessions EXCEPT ![current] = "closed"]
    ELSE sessions

Runs == 1..MaxRuns

RunsInit ==
    /\ SplitIdle
    /\ ParseIdle
    /\ SignIdle
    /\ ApiIdle
    /\ BotIdle
    /\ PriceIdle
    /\ FormatIdle
    /\ pool = <<>>
    /\ shared_session = 0
    /\ run_pc = [r \in Runs |-> "start"]
    /\ run_session = [r \in Runs |-> 0]
    /\ closes = 0
    /\ stopped = FALSE

\* _make_api_request, lines 78-91, of the call at the given place of a run:
\* the session is got and the request is posted
PostRequest(r, from, to) ==
    /\ run_pc[r] = from
    /\ LET got == _get_session(pool, shared_session)
       IN  /\ pool' = got.pool
           /\ shared_session' = got.session
           /\ run_session' = [run_session EXCEPT ![r] = got.session]
    /\ run_pc' = [run_pc EXCEPT ![r] = to]
    /\ UNCHANGED <<closes, stopped>>
    /\ UNCHANGED <<splitVars, parseVars, signVars, apiVars, botVars, priceVars, formatVars>>

\* handle_message up to the post of the first search; no update is handled
\* once the bot has stopped
FirstCall(r) == ~stopped /\ PostRequest(r, "start", "first_posted")

\* the first search returns: a product, and the run goes on to its reply, or
\* none, and get_product_details goes on to the second search
FirstReturn(r) ==
    /\ run_pc[r] = "first_posted"
    /\ \E found \in BOOLEAN :
           run_pc' = [run_pc EXCEPT ![r] = IF found THEN "done" ELSE "retry"]
    /\ UNCHANGED <<pool, shared_session, run_session, closes, stopped>>
    /\ UNCHANGED <<splitVars, parseVars, signVars, apiVars, botVars, priceVars, formatVars>>

\* get_product_details, line 190: the second search, posted by a run whose
\* first search gave no product
SecondCall(r) == run_session[r] # 0 /\ PostRequest(r, "retry", "second_posted")

\* the second search returns, and the run goes on to its reply
SecondReturn(r) ==
    /\ run_pc[r] = "second_posted"
    /\ run_pc' = [run_pc EXCEPT ![r] = "done"]
    /\ UNCHANGED <<pool, shared_session, run_session, closes, stopped>>
    /\ UNCHANGED <<splitVars, parseVars, signVars, apiVars, botVars, priceVars, formatVars>>

\* AliExpressAPI.close, called by the owner of the client
Close ==
    /\ closes < MaxCloses
    /\ closes' = closes + 1
    /\ pool' = close(pool, shared_session)
    /\ UNCHANGED <<shared_session, run_pc, run_session, stopped>>
    /\ UNCHANGED <<splitVars, parseVars, signVars, apiVars, botVars, priceVars, formatVars>>

\* TelegramBot.stop: the application is stopped and shut down; self.api is
\* not touched
Stop ==
    /\ ~stopped
    /\ stopped' = TRUE
    /\ UNCHANGED <<pool, shared_session, run_pc, run_session, closes>>
    /\ UNCHANGED <<splitVars, parseVars, signVars, apiVars, botVars, priceVars, formatVars>>

RunsNext ==
    \/ \E r \in Runs : FirstCall(r)
    \/ \E r \in Runs : FirstReturn(r)
    \/ \E r \in Runs : SecondCall(r)
    \/ \E r \in Runs : SecondReturn(r)
    \/ Close
    \/ Stop

SpecRuns == RunsInit /\ [][RunsNext]_vars

(***************************************************************************)
(* Claims about split_message.                                             *)
(***************************************************************************)
RECURSIVE JoinWith(_, _)
JoinWith(cs, sep) ==
    IF cs = <<>> THEN <<>>
    ELSE IF Len(cs) = 1 THEN cs[1]
    ELSE cs[1] \o sep \o JoinWith(Tail(cs), sep)

CeilDiv(a, b) == (a + b - 1) \div b

NonWhitespaceLine(m) == \A i \in 1..Len(m) : m[i] \notin Whitespace

\* C1: every chunk split_message returns is at most max_message_length long,
\* whatever the message's mix of short, empty and over-long lines.
C1_EveryChunkWithinLimit ==
    split_pc = "done" =>
        \A i \in 1..Len(chunks) : Len(chunks[i]) <= max_message_length

\* the chunks joined with seps[i] put back between chunk i and chunk i + 1
RECURSIVE JoinSeps(_, _)
JoinSeps(cs, seps) ==
    IF cs = <<>> THEN <<>>
    ELSE IF Len(cs) = 1 THEN cs[1]
    ELSE cs[1] \o seps[1] \o JoinSeps(Tail(cs), Tail(seps))

\* C2: joining the returned chunks, in order, with the newline characters
\* reinserted between them reproduces the message exactly: nothing is lost,
\* added or reordered.  The reading most favourable to the code is taken: a
\* newline is put back at the chunk boundaries where split removed one, and
\* nothing between the slices of one over-long line (C3).
C2_RejoinReproducesMessage ==
    split_pc = "done" =>
        \E seps \in [1..(Len(chunks) - 1) -> {<<>>, <<NL>>}] :
            JoinSeps(chunks, seps) = message

\* C3: a single line of L > limit non-whitespace characters is returned as
\* ceil(L / limit) chunks, the consecutive limit-sized slices of the line, whose
\* concatenation is the line; with L = 25 and limit = 10 these are 3 chunks of
\* length at most 10.
C3_SingleLineIsSliced ==
    (split_pc = "done" /\ NonWhitespaceLine(message)
                       /\ Len(message) > max_message_length) =>
        /\ Len(chunks) = CeilDiv(Len(message), max_message_length)
        /\ \A i \in 1..Len(chunks) :
             /\ chunks[i] = SubSeq(message, (i - 1) * max_message_length + 1,
                                   Min(i * max_message_length, Len(message)))
             /\ Len(chunks[i]) <= max_message_length
        /\ JoinWith(chunks, <<>>) = message
        /\ (Len(message) = 25 /\ max_message_length = 10 => Len(chunks) = 3)

C3_Witness ==
    /\ split_pc = "done"
    /\ message = LetterLine(25)
    /\ max_message_length = 10
    /\ chunks = <<SubSeq(message, 1, 10), SubSeq(message, 11, 20), SubSeq(message, 21, 25)>>

(***************************************************************************)
(* Claims about parse_url.                                                 *)
(***************************************************************************)
MarketplaceHosts ==
    {<<"aliexpress.com">>, <<"m.", "aliexpress.com">>, <<"a.", "aliexpress.com">>}

\* a hostname in small letters, as hostnames are compared
HostName(h) ==
    [i \in 1..Len(h) |->
        CASE h[i] = "ALIEXPRESS.COM" -> "aliexpress.com"
          [] h[i] = "WWW." -> "www."
          [] OTHER -> h[i]]

WithoutOneWww(h) == IF h # <<>> /\ Head(h) = "www." THEN Tail(h) ELSE h

\* the link names a marketplace host: it has a host at all (its text has the
\* "//" that starts one) and the host, less one leading "www.", is the
\* marketplace's
OnMarketplaceHost(lk) ==
    /\ lk.scheme # NoScheme
    /\ WithoutOneWww(HostName(lk.host)) \in MarketplaceHosts

Has(info, key) == info # None /\ key \in DOMAIN info

\* C4: for every text whose host, less one leading "www.", is not one of the
\* marketplace's hostnames, parse_url returns None, whatever the path and the
\* query are: also for a path of a supported item shape, a text with no scheme
\* and a host urlparse rejects.
C4_ForeignHostGivesNone ==
    (parse_pc = "done" /\ ~OnMarketplaceHost(link)) => product_info = None

C4_Witness ==
    /\ parse_pc = "done"
    /\ link.scheme = <<"https:", "/", "/">>
    /\ link.host = <<"evil", "aliexpress.com">>
    /\ link.path.shape = "slugged"
    /\ product_info = None

\* a link with an http(s) scheme on one of the marketplace's hostnames, in
\* small letters, whose path has a supported item shape
SupportedLink(lk) ==
    /\ lk.scheme \in {<<"https:", "/", "/">>, <<"http:", "/", "/">>}
    /\ lk.host \in AllowedHosts
    /\ lk.path.shape \in ItemShapes

\* C5: for every link on a marketplace host whose path has a supported item
\* shape, followed by any query, parse_url returns as product_id the digits
\* embedded in the path, and for the store shape as store_id the digits before
\* them; the slugged link with ?sku_id=5 gives that product_id and sku_id "5".
C5_ProductIdIsThePathsDigits ==
    (parse_pc = "done" /\ SupportedLink(link)) =>
        /\ Has(product_info, "product_id")
        /\ product_info.product_id = link.path.product
        /\ link.path.shape = "store" =>
             Has(product_info, "store_id") /\ product_info.store_id = link.path.store
        /\ (link.path.shape = "slugged" /\ link.params = SkuFive /\ ~link.in_fragment) =>
             Has(product_info, "sku_id") /\ product_info.sku_id = <<"5">>

\* the parameters of the link's query that carry a value
QueryParams(lk) ==
    IF lk.in_fragment THEN <<>>
    ELSE SelectSeq(lk.params, LAMBDA prm : prm.value # <<>>)

Present(lk, name) == \E i \in 1..Len(QueryParams(lk)) : QueryParams(lk)[i].name = name

ValueOf(lk, name) ==
    LET q == QueryParams(lk)
        first == CHOOSE i \in 1..Len(q) :
                    q[i].name = name /\ \A j \in 1..(i - 1) : q[j].name # name
    IN  q[first].value

SkuAliases == <<<<"sku">>, <<"skuId">>, <<"sku_id">>, <<"variation">>>>

\* the value of the first alias, in the order of SkuAliases, that is present
ExpectedSku(lk) ==
    LET first == CHOOSE i \in 1..Len(SkuAliases) :
                    /\ Present(lk, SkuAliases[i])
                    /\ \A j \in 1..(i - 1) : ~Present(lk, SkuAliases[j])
    IN  ValueOf(lk, SkuAliases[first])

SomeSkuPresent(lk) == \E i \in 1..Len(SkuAliases) : Present(lk, SkuAliases[i])

WithoutTracking(lk) ==
    [lk EXCEPT !.params =
        SelectSeq(lk.params, LAMBDA prm : prm.name \notin {<<"spm">>, <<"scm">>})]

Field(info, key) == IF Has(info, key) THEN <<info[key]>> ELSE <<>>

\* C6: whenever parse_url returns a result, whichever pattern matched, its
\* sku_id is the value of the first alias present in the query, in the order
\* sku, skuId, sku_id, variation, and is absent when none is present; spm and
\* scm are attached exactly when present, and they never affect product_id or
\* sku_id.  A parameter counts as present when it carries a value.
C6_SkuAndTrackingFromQuery ==
    (parse_pc = "done" /\ product_info # None) =>
        /\ Field(product_info, "sku_id")
             = (IF SomeSkuPresent(link) THEN <<ExpectedSku(link)>> ELSE <<>>)
        /\ \A t \in {"spm", "scm"} :
             Field(product_info, t)
               = (IF Present(link, <<t>>) THEN <<ValueOf(link, <<t>>)>> ELSE <<>>)
        /\ LET plain == parse_url(LinkText(WithoutTracking(link)))
           IN  /\ Field(product_info, "product_id") = Field(plain, "product_id")
               /\ Field(product_info, "sku_id") = Field(plain, "sku_id")

(***************************************************************************)
(* Claims about request signing.                                           *)
(***************************************************************************)
\* the entries of a mapping whose keys are all the least ones first:
\* the entry with the least key, then the rest in the same way
LeastEntry(entries) ==
    CHOOSE e \in entries : \A f \in entries : f = e \/ str_less(e[1], f[1])

RECURSIVE AscendingText(_)
AscendingText(entries) ==
    IF entries = {} THEN <<>>
    ELSE LET e == LeastEntry(entries)
         IN  e[1] \o format_value(e[2]) \o AscendingText(entries \ {e})

EntriesOf(params) == {params[i] : i \in 1..Len(params)}

\* secret, then key||value for every entry in ascending key order, then secret
CanonicalString(params, secret) == secret \o AscendingText(EntriesOf(params)) \o secret

\* the one position at which sign_other differs from sign_params
ChangedAt == CHOOSE i \in 1..Len(sign_params) : sign_other[i] # sign_params[i]

\* C8, as stated: signing the same mapping twice gives the same signature, and
\* two mappings with the same keys that differ in exactly one value have
\* different canonical strings and so different signatures.
C8_OneValueChangesTheSignature ==
    sign_pc = "done" =>
        /\ sig_first = sig_again
        /\ sign_other # sign_params =>
              /\ CanonicalString(sign_other, sign_secret) # CanonicalString(sign_params, sign_secret)
              /\ sig_other # sig_first

\* C8, amended: signing the same mapping twice gives the same signature (from
\* either client), the signature digests the canonical string, and two
\* mappings with the same keys that differ in exactly one value whose
\* formatted text differs have different canonical strings and signatures; a
\* changed value with the same formatted text leaves the signature as it was.
C8_OneFormattedValueChangesTheSignature ==
    sign_pc = "done" =>
        /\ sig_first = sig_again
        /\ sig_first = sig_oauth
        /\ sig_first = md5_hexdigest_upper(CanonicalString(sign_params, sign_secret))
        /\ sig_other = md5_hexdigest_upper(CanonicalString(sign_other, sign_secret))
        /\ sign_other # sign_params =>
              IF format_value(sign_other[ChangedAt][2]) # format_value(sign_params[ChangedAt][2])
              THEN /\ CanonicalString(sign_other, sign_secret)
                         # CanonicalString(sign_params, sign_secret)
                   /\ sig_other # sig_first
              ELSE sig_other = sig_first

\* two entries inserted out of key order, one value changed to another text
C8_Witness ==
    /\ sign_pc = "done"
    /\ Len(sign_params) = 2
    /\ str_less(sign_params[2][1], sign_params[1][1])
    /\ sign_other # sign_params
    /\ format_value(sign_other[ChangedAt][2]) # format_value(sign_params[ChangedAt][2])
    /\ sig_other # sig_first
    /\ sig_first = sig_again

(***************************************************************************)
(* Claims about the requests and the public lookup.                        *)
(***************************************************************************)
Reverse(seq) == [i \in 1..Len(seq) |-> seq[Len(seq) + 1 - i]]

SignEntries(data) == {i \in 1..Len(data) : data[i][1] = K_sign}

\* the parameters that are sent besides sign, in the order they are sent
OtherParams(data) == SelectSeq(data, LAMBDA e : e[1] # K_sign)

KeysOf(params) == {params[i][1] : i \in 1..Len(params)}

\* the common envelope of the client that posted the request: the API
\* client's has nine entries, the OAuth client's the first six of them
Envelope(request) ==
    LET common == _prepare_common_params(request.call.method, request.call.timestamp)
    IN  IF request.url = base_url THEN common ELSE SubSeq(common, 1, 6)

\* the envelope, overridden and extended by the method's parameters
ExpectedEntries(request) ==
    EntriesOf(request.call.additional_params)
    \cup {e \in EntriesOf(Envelope(request)) : e[1] \notin KeysOf(request.call.additional_params)}

\* C9: in every request that is posted there is exactly one sign, the other
\* parameters are the common envelope overridden and extended by the method's
\* parameters with nothing added or changed, and sign is the digest of the
\* canonical string of exactly those other parameters under the secret,
\* whatever the order they were inserted in.
C9_SignCoversWhatIsSent ==
    \A i \in 1..Len(sent) :
        LET data == sent[i].data
            others == OtherParams(data)
        IN  /\ Cardinality(SignEntries(data)) = 1
            /\ distinct_keys(data)
            /\ EntriesOf(others) = ExpectedEntries(sent[i])
            /\ get_item(data, K_sign) = md5_hexdigest_upper(CanonicalString(others, app_secret))
            /\ get_item(data, K_sign) = _generate_signature(Reverse(others), app_secret)
            /\ \E t \in StartClock..MaxClock : sent[i].call.timestamp = str_int(t)

\* two searches of one lookup, posted at different readings of the clock
C9_Witness ==
    /\ Len(sent) = 2
    /\ get_item(sent[1].data, K_timestamp) # get_item(sent[2].data, K_timestamp)
    /\ get_item(sent[1].data, K_sign) # get_item(sent[2].data, K_sign)
    /\ get_item(sent[2].data, K_page_size) = IntVal(5)
    /\ Cardinality(SignEntries(sent[2].data)) = 1

\* the entries a search yields: those of the page of a well-formed answer
PageOf(reply) ==
    IF /\ reply.kind = "json"
       /\ reply.body.has_wrapper
       /\ reply.body.has_result
       /\ reply.body.has_products
    THEN reply.body.products
    ELSE <<>>

\* the positions of the entries whose identifier equals product_id
Matches(page, product_id) ==
    {i \in 1..Len(page) : product_id_text(page[i]) = product_id}

Least(positions) == CHOOSE i \in positions : \A j \in positions : i <= j

\* the last 8 characters of a text (the whole text when it has fewer)
LastEight(text) ==
    SubSeq(text, IF Len(text) > 8 THEN Len(text) - 7 ELSE 1, Len(text))

LookupReturned ==
    /\ api_pc = "returned"
    /\ sent # <<>>
    /\ sent[1].call.method = product_query

\* C10: a public lookup of P searches for P, valid id or not; it returns the
\* first entry of the first page whose identifier is P when there is one,
\* else the first entry of that page; when the first search yields no entry
\* it searches once more for the last 8 characters of P and returns the first
\* entry of that page, or not-found when the second search yields nothing too.
C10_PublicLookup ==
    /\ api_pc = "retry" =>
          /\ Len(sent) = 1
          /\ PageOf(replies[1]) = <<>>
    /\ LookupReturned =>
          LET first == PageOf(replies[1])
          IN  /\ get_item(sent[1].data, K_keywords) = StrVal(lookup_id)
              /\ IF Matches(first, lookup_id) # {}
                 THEN /\ product_data = first[Least(Matches(first, lookup_id))]
                      /\ Len(sent) = 1
                 ELSE IF first # <<>>
                 THEN /\ product_data = first[1]
                      /\ Len(sent) = 1
                 ELSE /\ Len(sent) = 2
                      /\ get_item(sent[2].data, K_keywords) = StrVal(LastEight(lookup_id))
                      /\ IF PageOf(replies[2]) # <<>>
                         THEN product_data = PageOf(replies[2])[1]
                         ELSE product_data = None

\* an id that fails the validity check, found at the second place of the page
C10_Witness ==
    /\ LookupReturned
    /\ Len(lookup_id) < 8
    /\ Len(PageOf(replies[1])) = 2
    /\ Matches(PageOf(replies[1]), lookup_id) = {2}
    /\ product_data = PageOf(replies[1])[2]

(***************************************************************************)
(* Claims about the handling of a message.                                 *)
(***************************************************************************)
\* the update is a shortened-code link on the short host
ShortLinkMessage ==
    /\ link.host = <<"a.", "aliexpress.com">>
    /\ link.path.shape = "short"

\* C7: for a shortened-code link on the short host the resolver returns the
\* needs-expansion placeholder, and the handling of the message ends with the
\* parse-error ("cannot parse the link") text, with no request posted and
\* no processing-error text.
C7_ShortLinkEndsWithCannotParse ==
    (bot_pc = "done" /\ ShortLinkMessage) =>
        /\ product_info # None
        /\ "needs_expansion" \in DOMAIN product_info
        /\ product_info.needs_expansion
        /\ chat[Len(chat)] = Post("edit_text", "parse_error", <<>>)
        /\ \A i \in 1..Len(chat) : chat[i].kind # "processing_error"
        /\ sent = <<>>

(***************************************************************************)
(* Claims about failed remote calls.                                       *)
(***************************************************************************)
FailedReply(reply) == reply.kind \in {"fault", "status", "bad_json"}

\* every request so far was posted by the API client
ApiRun == \A i \in 1..Len(sent) : sent[i].url = base_url

\* C11: a call of _make_api_request that is answered with a status other
\* than 200, with a transport fault or with a body that is not JSON returns
\* None to its caller, which goes on; and every call posts exactly one
\* request, so a failed call is not tried again.
C11_FailedCallReturnsNone ==
    ApiRun =>
        /\ Len(sent) = Len(responses)
        /\ Len(replies) = Len(responses)
        /\ \A i \in 1..Len(responses) :
              FailedReply(replies[i]) => responses[i] = None
        /\ (Len(replies) = 1 /\ FailedReply(replies[1])) =>
              /\ api_pc = "retry"
              /\ product_data = None

\* a transport fault, then a body that is not JSON
C11_Witness ==
    /\ ApiRun
    /\ Len(replies) = 2
    /\ replies[1].kind = "fault"
    /\ replies[2].kind = "bad_json"
    /\ responses = <<None, None>>
    /\ Len(sent) = 2

(***************************************************************************)
(* Claims about the replies to failed lookups.                             *)
(***************************************************************************)
\* the searches of the run were answered well and held no product
NotFoundRun ==
    /\ replies # <<>>
    /\ \A i \in 1..Len(replies) :
          /\ replies[i].kind = "json"
          /\ replies[i].body.has_wrapper
          /\ replies[i].body.has_result
          /\ replies[i].body.has_products
          /\ replies[i].body.products = <<>>

\* the remote calls of the run failed: a transport fault or a status other than 200
UnavailableRun ==
    /\ replies # <<>>
    /\ \A i \in 1..Len(replies) : replies[i].kind \in {"fault", "status"}

TerminalReply == chat[Len(chat)]

\* the reply of lines 142-144, with which a run that found no product ends
NotFoundReply == Post("edit_text", "fetch_error", <<>>)

\* C12: a run whose searches succeeded and returned no product ends with the
\* not-found reply, and a run whose remote calls failed ends with another reply.
C12_NotFoundDiffersFromUnavailable ==
    bot_pc = "done" =>
        /\ NotFoundRun => TerminalReply = NotFoundReply
        /\ UnavailableRun => TerminalReply # NotFoundReply

(***************************************************************************)
(* Claims about calculate_total_price.                                     *)
(***************************************************************************)
\* C13: for every base price and shipping cost that are not negative, the
\* breakdown has subtotal = base + shipping cost, tax amount = subtotal times
\* the flat rate (19 per cent), total = subtotal + tax amount, and no
\* negative amount.
C13_BreakdownAddsUp ==
    price_pc # "start" =>
        /\ breakdown.base_price = price_base
        /\ breakdown.subtotal = breakdown.base_price + breakdown.shipping_cost
        /\ breakdown.tax_amount * 100 = breakdown.subtotal * 19
        /\ breakdown.total = breakdown.subtotal + breakdown.tax_amount
        /\ \A amount \in {breakdown.base_price, breakdown.shipping_cost, breakdown.subtotal,
                          breakdown.tax_amount, breakdown.total} : amount >= 0

\* a base price of 20.00 with a shipping cost of 5.00
C13_Witness ==
    /\ price_pc = "done"
    /\ price_base = 200000
    /\ price_shipping = Supplied(50000)
    /\ breakdown.subtotal = 250000
    /\ breakdown.tax_amount = 47500
    /\ breakdown.total = 297500

\* C14: a base price of 20 with a shipping cost of 5 gives subtotal 25, tax
\* amount 2.5 (the rate being 0.1) and total 27.5, and the same breakdown
\* when computed again.
C14_TwentyPlusFiveAtTenPerCent ==
    (price_pc = "done" /\ price_base = 200000 /\ price_shipping = Supplied(50000)) =>
        /\ breakdown.subtotal = 250000
        /\ breakdown.tax_amount = 25000
        /\ breakdown.total = 275000
        /\ breakdown_again = breakdown

\* the estimate of lines 227-232 for a base price
ThreeTierEstimate(base_price) ==
    IF base_price < 100000 THEN 29900
    ELSE IF base_price < 500000 THEN 59900
    ELSE 99900

\* C15: the shipping cost of the breakdown is the three-tier estimate when no
\* shipping cost is passed, and the passed shipping cost whenever one is
\* passed, a passed cost of 0 included.
C15_EstimateOnlyWhenNotSupplied ==
    price_pc # "start" =>
        IF price_shipping.supplied
        THEN breakdown.shipping_cost = price_shipping.amount
        ELSE breakdown.shipping_cost = ThreeTierEstimate(price_base)

(***************************************************************************)
(* Claims about format_product_info.                                       *)
(***************************************************************************)
\* the part is in the text, from position i on
OccursAt(part, text, i) ==
    /\ i >= 1
    /\ i + Len(part) - 1 <= Len(text)
    /\ SubSeq(text, i, i + Len(part) - 1) = part

PiecesOf(text) == {text[i] : i \in 1..Len(text)}

ProductBaseInfo == base_info_of(format_product)

Readable(dict, key) == has_field(dict, key) /\ ~to_float(dict[key]).raises

\* a record with a title and price fields, and no rating and no seller fields
TitleAndPriceOnly ==
    /\ has_field(format_product, "product_title")
    /\ is_str(format_product.product_title)
    /\ is_dict(ProductBaseInfo)
    /\ {"original_price", "sale_price"} \cap DOMAIN ProductBaseInfo # {}
    /\ \A key \in {"original_price", "sale_price"} \cap DOMAIN ProductBaseInfo :
           Readable(ProductBaseInfo, key)
    /\ {"avg_evaluation_rating", "evaluation_count", "seller_id", "shop_id"}
           \cap DOMAIN ProductBaseInfo = {}

\* the lines of the price section that show the record's prices
PriceLines ==
    (IF has_field(ProductBaseInfo, "original_price")
     THEN {<<"* original price: $">>
           \o two_decimals(to_float(ProductBaseInfo.original_price).float) \o <<NL>>}
     ELSE {})
    \cup (IF has_field(ProductBaseInfo, "sale_price")
          THEN {<<"* sale price: **$">>
                \o two_decimals(to_float(ProductBaseInfo.sale_price).float) \o <<"**", NL>>}
          ELSE {})

\* C16: the text of a record that has a title and price fields but no rating
\* and no seller fields starts with the header, has the price section (its
\* heading and the lines of the prices) after it and the footer at its end,
\* has neither the rating heading nor the seller heading, and is not the
\* formatting-error message.
C16_TitleAndPriceOnlyRecord ==
    (format_pc = "done" /\ TitleAndPriceOnly) =>
        LET title == clean_title(format_product.product_title.str)
            title_shown ==
                product_header(IF Len(title) > 100 THEN Take(title, 97) \o <<"...">> ELSE title)
        IN  /\ OccursAt(title_shown, formatted, 1)
            /\ \E i \in (Len(title_shown) + 1)..Len(formatted) :
                   /\ OccursAt(price_section_template, formatted, i)
                   /\ \A line \in PriceLines :
                          \E j \in (i + 1)..Len(formatted) :
                              /\ OccursAt(line, formatted, j)
                              /\ j + Len(line) - 1 <= Len(formatted) - Len(footer)
            /\ OccursAt(footer, formatted, Len(formatted) - Len(footer) + 1)
            /\ rating_section_template[1] \notin PiecesOf(formatted)
            /\ seller_section_template[1] \notin PiecesOf(formatted)
            /\ formatted # formatting_error

C16_Witness ==
    /\ format_pc = "done"
    /\ TitleAndPriceOnly
    /\ DOMAIN ProductBaseInfo = {"original_price", "sale_price"}
    /\ format_shipping = freight_result
    /\ price_section_template[1] \in PiecesOf(formatted)

\* the sections of the text
SectionNames ==
    <<"header", "image", "price", "rating", "seller", "shipping", "variants", "footer">>

SectionText(name, product, shipping) ==
    CASE name = "header" -> product_header(_get_product_title(product))
      [] name = "image" -> IF truthy(_get_product_image(product))
                           THEN image_line(_get_product_image(product))
                           ELSE <<>>
      [] name = "price" -> _format_price_section(product, shipping)
      [] name = "rating" -> _format_rating_section(product)
      [] name = "seller" -> _format_seller_section(product)
      [] name = "shipping" -> _format_shipping_section(shipping)
      [] name = "variants" -> _format_variants_section(product)
      [] name = "footer" -> footer

RECURSIVE Concat(_)
Concat(texts) == IF texts = <<>> THEN <<>> ELSE Head(texts) \o Concat(Tail(texts))

Without(dict, key) == [k \in DOMAIN dict \ {key} |-> dict[k]]

FreightKey == "aeop_freight_calculate_result_for_buyers_dto"

\* the fields of the records whose value makes the section that reads them
\* fault
MalformedFields ==
    (IF has_field(format_product, "product_title") /\ ~is_str(format_product.product_title)
     THEN {"product_title"} ELSE {})
    \cup (IF is_dict(ProductBaseInfo)
          THEN {key \in {"original_price", "sale_price"} \cap DOMAIN ProductBaseInfo :
                    to_float(ProductBaseInfo[key]).raises}
               \cup {key \in {"avg_evaluation_rating"} \cap DOMAIN ProductBaseInfo :
                         truthy(ProductBaseInfo[key]) /\ to_float(ProductBaseInfo[key]).raises}
          ELSE {"ae_item_base_info_dto"})
    \cup (IF has_field(format_product, "ae_item_sku_info_dtos")
             /\ ~is_list(format_product.ae_item_sku_info_dtos)
          THEN {"ae_item_sku_info_dtos"} ELSE {})
    \cup (IF format_shipping # None /\ has_field(format_shipping, FreightKey)
             /\ ~is_dict(format_shipping[FreightKey])
          THEN {FreightKey} ELSE {})

\* the sections that read the field
SectionsOfField(key) ==
    CASE key = "product_title" -> {"header"}
      [] key \in {"original_price", "sale_price"} -> {"price"}
      [] key = "avg_evaluation_rating" -> {"rating"}
      [] key = "ae_item_base_info_dto" -> {"price", "rating", "seller"}
      [] key = "ae_item_sku_info_dtos" -> {"variants"}
      [] key = FreightKey -> {"shipping"}

\* the same records without the field
ProductWithout(key) ==
    IF key \in {"original_price", "sale_price", "avg_evaluation_rating"}
    THEN [format_product EXCEPT !.ae_item_base_info_dto = Without(ProductBaseInfo, key)]
    ELSE IF key \in DOMAIN format_product THEN Without(format_product, key)
    ELSE format_product

ShippingWithout(key) ==
    IF key = FreightKey THEN Without(format_shipping, key) ELSE format_shipping

\* C18: for each malformed field of the records, the text is not the
\* formatting-error message, and it is the sections in their order, where
\* every section that does not read the field is the text it is for the
\* same records without the field.
C18_FaultStaysInItsSection ==
    format_pc = "done" =>
        \A key \in MalformedFields :
            /\ formatted # formatting_error
            /\ formatted =
                   Concat([i \in 1..Len(SectionNames) |->
                              IF SectionNames[i] \in SectionsOfField(key)
                              THEN SectionText(SectionNames[i], format_product, format_shipping)
                              ELSE SectionText(SectionNames[i], ProductWithout(key),
                                               ShippingWithout(key))])

\* a malformed sale price, and every other section rendered
C18_Witness ==
    /\ format_pc = "done"
    /\ MalformedFields = {"sale_price"}
    /\ price_section_template[1] \notin PiecesOf(formatted)
    /\ {rating_section_template[1], seller_section_template[1],
        shipping_section_template[1], variants_section_template[1], footer[2]}
           \subseteq PiecesOf(formatted)

\* the source fields of the shipping section
ShippingFields == {"delivery_day_min", "delivery_day_max", "service_name"}

NoShippingFields ==
    \/ format_shipping = None
    \/ ~has_field(format_shipping, FreightKey)
    \/ /\ is_dict(format_shipping[FreightKey])
       /\ ShippingFields \cap DOMAIN format_shipping[FreightKey] = {}

NoBaseInfoFields(keys) ==
    /\ is_dict(ProductBaseInfo)
    /\ keys \cap DOMAIN ProductBaseInfo = {}

\* C17: a section whose source fields the records do not have leaves nothing
\* in the text: no placeholder for the title, no image link, and no heading
\* and no default line of the price, rating, seller, shipping and variants
\* sections.
C17_AbsentFieldsGiveEmptySection ==
    format_pc = "done" =>
        /\ ~has_field(format_product, "product_title") =>
               not_available[1] \notin PiecesOf(formatted)
        /\ ~has_field(format_product, "product_main_image_url") =>
               image_line(StrVal(<<>>))[1] \notin PiecesOf(formatted)
        /\ NoBaseInfoFields({"original_price", "sale_price"}) =>
               price_section_template[1] \notin PiecesOf(formatted)
        /\ NoBaseInfoFields({"avg_evaluation_rating", "evaluation_count"}) =>
               rating_section_template[1] \notin PiecesOf(formatted)
        /\ NoBaseInfoFields({"seller_id", "shop_id"}) =>
               seller_section_template[1] \notin PiecesOf(formatted)
        /\ NoShippingFields =>
               /\ shipping_section_template[1] \notin PiecesOf(formatted)
               /\ "* destination: Algeria (DZ)" \notin PiecesOf(formatted)
        /\ ~has_field(format_product, "ae_item_sku_info_dtos") =>
               variants_section_template[1] \notin PiecesOf(formatted)

\* the star symbols of the text
StarCount == Cardinality({i \in 1..Len(formatted) : formatted[i] = "[star]"})

\* the rating section has a star line
StarLine == "* rating: " \in PiecesOf(formatted)

\* C19: a text that has a star line has at least 1 and at most 5 star
\* symbols.
C19_StarCountBounded ==
    (format_pc = "done" /\ StarLine) => (StarCount >= 1 /\ StarCount <= 5)

(***************************************************************************)
(* Claims about the SKU of a lookup.                                       *)
(***************************************************************************)
\* the requests of a lookup that are not its two searches
CallsBesideSearches ==
    {i \in 1..Len(sent) :
        get_item(sent[i].data, K_keywords)
            \notin {StrVal(lookup_id), StrVal(LastEight(lookup_id))}}

\* the entries of the pages the searches got
PageEntries ==
    UNION {{PageOf(replies[i])[j] : j \in 1..Len(PageOf(replies[i]))} : i \in 1..Len(replies)}

\* C20: a lookup that was given a SKU sends exactly one request beside its
\* searches, and the record it returns is more than the entry of the page,
\* the SKU detail being merged into it; a lookup that was given no SKU sends
\* no request beside its searches.
C20_SkuDetailCall ==
    LookupReturned =>
        IF lookup_sku # None
        THEN /\ Cardinality(CallsBesideSearches) = 1
             /\ product_data # None => product_data \notin PageEntries
        ELSE CallsBesideSearches = {}

(***************************************************************************)
(* Claims about the transport session.                                     *)
(***************************************************************************)
\* no run has posted a request yet
NoCallYet == \A r \in DOMAIN run_pc : run_pc[r] = "start"

\* C21: no session exists before the first remote call, and no session is
\* open in any state after stop() of the bot has returned.
C21_SessionLazyAndClosedOnStop ==
    /\ NoCallYet => pool = <<>>
    /\ stopped => OpenSessions(pool) = {}

\* the run whose step posts a request
Posting(r) ==
    /\ run_pc[r] \in {"start", "retry"}
    /\ run_pc'[r] \in {"first_posted", "second_posted"}

\* a post made while a session is open reuses that session and makes none;
\* a post made while none is open, before the first or after a close, makes
\* exactly one, which is the only open one
PostReusesOrMakesOne ==
    \A r \in DOMAIN run_pc :
        Posting(r) =>
            IF OpenSessions(pool) # {}
            THEN /\ pool' = pool
                 /\ run_session'[r] \in OpenSessions(pool)
            ELSE /\ Len(pool') = Len(pool) + 1
                 /\ SubSeq(pool', 1, Len(pool)) = pool
                 /\ OpenSessions(pool') = {Len(pool')}
                 /\ run_session'[r] = Len(pool')

\* C25: in every interleaving of the runs at most one session is open at
\* any time, a request posted while a session is open reuses it, and a
\* request posted while none is open makes exactly one new session.
C25_AtMostOneSessionOpen ==
    /\ [](Cardinality(OpenSessions(pool)) <= 1)
    /\ [][PostReusesOrMakesOne]_vars

\* two runs wait for the answers of requests posted on the same session, and
\* a session closed earlier was replaced by it
C25_Witness ==
    /\ \E r1, r2 \in DOMAIN run_pc :
           /\ r1 # r2
           /\ run_pc[r1] \in {"first_posted", "second_posted"}
           /\ run_pc[r2] \in {"first_posted", "second_posted"}
           /\ run_session[r1] = run_session[r2]
           /\ run_session[r1] \in OpenSessions(pool)
    /\ Len(pool) = 2
    /\ pool[1] = "closed"

(***************************************************************************)
(* Claims about the searches of a lookup and the shipping record.          *)
(***************************************************************************)
\* the run is a call of get_product_details
LookupRun == api_pc \in {"lookup", "retry"} \/ LookupReturned

\* the run is a call of get_shipping_info that has returned
ShippingReturned == api_pc = "returned" /\ shipping_data # None

\* C24: a lookup posts at most two searches, the second only once the first
\* was answered; it posts the second exactly when the first gave no product,
\* its page being empty or the call having failed, and never when the first
\* page held an entry.  get_shipping_info posts no request and returns a
\* record whose destination is the configured country.
C24_AtMostTwoSearchesAndSynthesizedShipping ==
    /\ LookupRun =>
          /\ Len(sent) <= 2
          /\ Len(replies) = Len(sent)
          /\ \A i \in 1..Len(sent) : sent[i].call.method = product_query
          /\ api_pc = "retry" =>
                /\ Len(sent) = 1
                /\ PageOf(replies[1]) = <<>>
          /\ LookupReturned =>
                /\ Len(sent) = 2 <=> PageOf(replies[1]) = <<>>
                /\ FailedReply(replies[1]) => Len(sent) = 2
                /\ PageOf(replies[1]) # <<>> => Len(sent) = 1
    /\ ShippingReturned =>
          /\ sent = <<>>
          /\ session = "none"
          /\ DOMAIN shipping_data =
                 {"estimated_delivery", "shipping_method", "destination", "note"}
          /\ shipping_data.destination = StrVal(ship_to_country)

\* a lookup whose first search failed and whose second search found a product
C24_Witness ==
    /\ LookupReturned
    /\ Len(sent) = 2
    /\ replies[1].kind = "status"
    /\ PageOf(replies[2]) # <<>>
    /\ product_data = PageOf(replies[2])[1]

(***************************************************************************)
(* Claims about the stages and the reply of handle_message.                *)
(***************************************************************************)
ProcessingPost == Post("reply_text", "processing", <<>>)

\* the host of the text is not the marketplace's
NotMarketplace == ~is_aliexpress_url(strip(update_text))

\* resolve returned a result
Resolved == product_info # None

\* C22: a text whose host is not the marketplace's gets the guidance reply,
\* with no request and no progress message; a request is posted only after
\* resolve returned a result; the shipping record and the formatted text are
\* made only after the product fetch returned a product; and a run that has
\* ended ended with the reply of its last stage: the cannot-parse edit and
\* no request when resolve failed, the fetch-error edit after the searches
\* and no shipping record and no text when the fetch failed, else the
\* product reply.
C22_StagesInOrder ==
    /\ (bot_pc # "start" /\ NotMarketplace) =>
          /\ bot_pc = "done"
          /\ chat = <<Post("reply_text", "invalid_link", <<>>)>>
          /\ sent = <<>>
          /\ ~Resolved
    /\ sent # <<>> =>
          /\ Resolved
          /\ chat # <<>>
          /\ chat[1] = ProcessingPost
    /\ (shipping_data # None \/ formatted_response # None) =>
          /\ api_pc = "returned"
          /\ product_data # None
          /\ sent # <<>>
    /\ (bot_pc = "done" /\ ~NotMarketplace) =>
          IF ~Resolved
          THEN /\ chat = <<ProcessingPost, Post("edit_text", "parse_error", <<>>)>>
               /\ sent = <<>>
          ELSE IF product_data = None
          THEN /\ chat = <<ProcessingPost, Post("edit_text", "fetch_error", <<>>)>>
               /\ sent # <<>>
               /\ shipping_data = None
               /\ formatted_response = None
          ELSE /\ shipping_data # None
               /\ formatted_response # None
               /\ chat[1] = ProcessingPost
               /\ chat[Len(chat)].kind = "product"

====
